---- MODULE Spec2Model ----
(***************************************************************************)
(* Chat request orchestration of src/app/(chat)/api/chat/route.ts (the     *)
(* first of the two copies of the route held in that file, lines 1..655):  *)
(* the POST (create generation), GET (resume) handlers, the generation     *)
(* loop with its onFinish persistence step, the dynamic tool adapters and  *)
(* the capability loader.  Every handler is cut into one action per await  *)
(* that touches state shared with other requests.                          *)
(***************************************************************************)
EXTENDS Integers, Sequences, FiniteSets, TLC

\* ------------------------------------------------------------------ bounds
MaxReq == 2            \* concurrent requests of the multi-request specification
MaxTicks == 2          \* clock advances in one behaviour
MaxTools == 2          \* operations in one capability listing
MaxCalls == 2          \* calls of the capability loader by one caller
MaxItems == 2          \* content items in one remote call result
MaxInv == 2            \* dynamic tool invocations of one generation
MaxCount == 3          \* messages a user has sent within the last 24 hours

\* --------------------------------------------------------- program constants
MaxSteps == 5          \* streamText maxSteps
FreshnessSeconds == 15 \* GET: differenceInSeconds(...) > 15
MaxJsonLengthForPrompt == 3000
TicksPerSecond == 2    \* the clock counts half seconds (Date has ms precision)

Reqs == 1..MaxReq
Invs == 1..MaxInv
ChatIds == {"c1"}
Users == {"u1", "u2"}
Visibilities == {"private", "public"}
Models == {"chat-model", "chat-model-reasoning"}

\* Clock advances the environment may make, in ticks: 0.5 s, 5 s, 15 s, 16 s.
Deltas == {1, 10, 30, 32}

NoChat == [owner |-> "none", visibility |-> "none"]
NoReq == [kind |-> "none", chat |-> "none", user |-> "none", visibility |-> "none",
          model |-> "none", url |-> "none", at |-> 0, recent |-> 0, count |-> 0,
          thrown |-> "none"]
NoResp == [status |-> 0, body |-> "none", events |-> <<>>]
NoGen == [state |-> "none", step |-> 0, outcome |-> "none"]

\* Provider addresses: one that new URL() rejects, one nobody listens on, one
\* that answers.
Urls == {"bad", "down", "up"}

\* Operation names a provider may advertise (one is also a static tool's name).
ToolNames == {"lookup", "getWeather"}

\* enum of a property schema: absent, [], or a list of strings.
NoEnum == [present |-> FALSE, values |-> <<>>]
EmptyEnum == [present |-> TRUE, values |-> <<>>]
ColourEnum == [present |-> TRUE, values |-> <<"red", "green">>]
Enums == {NoEnum, EmptyEnum, ColourEnum}

\* type of a property schema; "none" is a schema without type, "object"
\* stands for every type the translation has no case for.
PropertyTypes == {"none", "string", "number", "integer", "boolean", "object", "array"}

\* items of a property schema: absent, or a schema with type and enum.
NoItems == [present |-> FALSE, type |-> "none", enum |-> NoEnum]
ItemSchemas ==
  {NoItems} \cup [present : {TRUE}, type : PropertyTypes \ {"array"}, enum : Enums]

\* A property schema of an inputSchema; isNull is a JSON null in its place.
NullProperty == [isNull |-> TRUE, type |-> "none", enum |-> NoEnum, items |-> NoItems]
StringProperty == [isNull |-> FALSE, type |-> "string", enum |-> NoEnum, items |-> NoItems]
PropertySchemas ==
  [isNull : {FALSE}, type : PropertyTypes \ {"array"}, enum : Enums, items : {NoItems}]
    \cup [isNull : {FALSE}, type : {"array"}, enum : {NoEnum}, items : ItemSchemas]

\* required of an inputSchema: absent, or a list of property names.
NoRequired == [present |-> FALSE, names |-> {}]
Required(names) == [present |-> TRUE, names |-> names]

\* inputSchema values: absent, { type: 'object', properties: { city: string },
\* required: ['city'] }, and { type: 'object', properties: { city: null } }.
NoSchema == [type |-> "none", properties |-> <<>>, required |-> NoRequired]
CitySchema == [type |-> "object",
               properties |-> << [name |-> "city", schema |-> StringProperty] >>,
               required |-> Required({"city"})]
NullPropertySchema == [type |-> "object",
                       properties |-> << [name |-> "city", schema |-> NullProperty] >>,
                       required |-> NoRequired]
Schemas == {NoSchema, CitySchema, NullPropertySchema}

McpTools == [name : ToolNames, inputSchema : Schemas]

\* Object schemas with a property "a" of any property schema, with or without
\* a second property "b", and any required list over the two names.
PropertySchemasOfA == {[name |-> "a", schema |-> p] : p \in PropertySchemas}
PropertySchemaOfB == [name |-> "b", schema |-> StringProperty]
ParameterSchemas ==
  [type : {"object"},
   properties : {<<a>> : a \in PropertySchemasOfA}
                  \cup {<<a, PropertySchemaOfB>> : a \in PropertySchemasOfA},
   required : {NoRequired} \cup {Required(names) : names \in SUBSET {"a", "b"}}]

\* The listings listTools may return: up to MaxTools operations.
SeqsUpTo(S, n) == UNION {[1..k -> S] : k \in 0..n}
Listings == SeqsUpTo(McpTools, MaxTools)

\* ---- results of a remote call (McpCallToolResult)
\* An error value: absent, an object with a message, an object without one, or
\* a bare string; serialized is its JSON.stringify.
NoError == [kind |-> "absent", hasMessage |-> FALSE, message |-> "",
            serialized |-> "undefined"]
MessageError == [kind |-> "object", hasMessage |-> TRUE, message |-> "quota exceeded",
                 serialized |-> "{message:quota exceeded}"]
CodeError == [kind |-> "object", hasMessage |-> FALSE, message |-> "",
              serialized |-> "{code:403}"]
StringError == [kind |-> "string", hasMessage |-> FALSE, message |-> "",
                serialized |-> "'denied'"]
TopLevelErrors == {NoError, MessageError, CodeError, StringError}

\* What follows the marker " succeeded. Response:\n" in a text item: whether
\* JSON.parse accepts it, the parsed object's error field, the length of its
\* pretty-printed form, its top-level keys.
NoJson == [parses |-> FALSE, error |-> NoError, length |-> 0, keys |-> <<>>,
           serialized |-> "none", parseError |-> "none"]
Json(error, length) ==
  [parses |-> TRUE, error |-> error, length |-> length, keys |-> <<"city", "temp">>,
   serialized |-> "{city:Rome,temp:21}", parseError |-> "none"]
BadJson == [NoJson EXCEPT !.parseError = "Unexpected token o in JSON"]

\* Content items: type, text, whether the text holds the marker, the payload.
Item(type, text, marker, json) ==
  [type |-> type, text |-> text, marker |-> marker, json |-> json]
ImageItem == Item("image", "", FALSE, NoJson)
EmptyTextItem == Item("text", "", FALSE, NoJson)
PlainItem == Item("text", "Sunny in Rome", FALSE, NoJson)
BadJsonItem == Item("text", "lookup succeeded. Response: {oops", TRUE, BadJson)
SmallJsonItem == Item("text", "lookup succeeded. Response: {small}", TRUE,
                      Json(NoError, 3000))
LargeJsonItem == Item("text", "lookup succeeded. Response: {large}", TRUE,
                      Json(NoError, 3001))
JsonErrorItem == Item("text", "lookup succeeded. Response: {error}", TRUE,
                      Json(MessageError, 40))
JsonCodeErrorItem == Item("text", "lookup succeeded. Response: {error code}", TRUE,
                          Json(CodeError, 30))
\* A payload whose error field is there with a falsy value: { error: null, ... }
NullError == [kind |-> "falsy", hasMessage |-> FALSE, message |-> "", serialized |-> "null"]
JsonNullErrorItem == Item("text", "lookup succeeded. Response: {error null}", TRUE,
                          Json(NullError, 20))
\* A JSON null in the content array.
NullItem == Item("null", "", FALSE, NoJson)
Items == {ImageItem, EmptyTextItem, PlainItem, BadJsonItem, SmallJsonItem,
          LargeJsonItem, JsonErrorItem, JsonCodeErrorItem, JsonNullErrorItem, NullItem}

CallResult(content, isError, error) ==
  [content |-> content, isError |-> isError, error |-> error]
CallResults ==
  {CallResult(c, e, x) : c \in SeqsUpTo(Items, MaxItems), e \in BOOLEAN,
                         x \in TopLevelErrors}
NoResult == CallResult(<<>>, FALSE, NoError)

\* A result of one plain text item.
PlainResult == CallResult(<<PlainItem>>, FALSE, NoError)

\* The results the single-request specification lets the provider answer.
FewResults ==
  {PlainResult, CallResult(<<>>, TRUE, MessageError),
   CallResult(<<NullItem>>, FALSE, NoError)}

NoInv == [pc |-> "idle", req |-> 0, step |-> 0, tool |-> "none", url |-> "none",
          conn |-> 0, failure |-> "none", result |-> NoResult,
          returned |-> [isError |-> FALSE, text |-> <<>>]]
NoConn == [state |-> "none", users |-> {}]
NoEvent == [type |-> "none", step |-> 0, toolName |-> "none", payload |-> <<>>,
            inv |-> 0]

\* The tools POST always registers.
StaticTools == <<"getWeather", "createDocument", "updateDocument", "requestSuggestions">>

NoLoader == [pc |-> "idle", url |-> "none", prev |-> "none", client |-> "null",
             definitions |-> <<>>, failure |-> "none", calls |-> 0, result |-> <<>>,
             closeError |-> FALSE, listed |-> <<>>]

VARIABLES
  clock,      \* wall clock, in ticks
  ticks,      \* number of clock advances so far
  redisOk,    \* environment: createResumableStreamContext succeeds (REDIS_URL set)
  streamCtx,  \* globalStreamContext: "null" or "ctx"
  chats,      \* Chat table: chat id -> record (NoChat when absent)
  messages,   \* Message table, in insertion order
  streamIds,  \* Stream table, in insertion order: records [chat, id]
  streams,    \* resumable-stream registry: stream id -> "absent" | "live" | "done"
  streamSrc,  \* what a live registry entry reads: "none" | "gen" | "empty"
  pc,         \* position of each request in its handler
  rq,         \* inputs of each request
  resp,       \* response of each request
  gen,        \* generation (streamText) of each POST request
  out,        \* data stream (output channel) of each POST request
  client,     \* whether the client of a request is still connected
  ld,         \* loadToolsViaMcpSdk as called by each caller: its locals and result
  toolDefinitions, \* toolDefinitions of each POST request
  inv,        \* activations of dynamicTools[opId].execute
  conns       \* MCP clients created by the tool activations

vars == <<clock, ticks, redisOk, streamCtx, chats, messages, streamIds, streams,
          streamSrc, pc, rq, resp, gen, out, client, ld, toolDefinitions, inv, conns>>

envVars == <<clock, ticks, redisOk>>
toolVars == <<ld, toolDefinitions, inv, conns>>
dbVars == <<chats, messages, streamIds>>
regVars == <<streams, streamSrc, streamCtx>>

\* The stream id of request r is r; one more id is that of a generation of
\* the chat whose request was over before the first of Reqs arrived.
EarlierStreamId == 0
StreamIdSet == {EarlierStreamId} \cup Reqs

\* ------------------------------------------------------------------ helpers
Resp(status, body) == [status |-> status, body |-> body, events |-> <<>>]

\* new ChatSDKError(code).toResponse()
ErrorResponse(code) ==
  CASE code = "bad_request:api"   -> Resp(400, code)
    [] code = "unauthorized:chat" -> Resp(401, code)
    [] code = "forbidden:chat"    -> Resp(403, code)
    [] code = "not_found:chat"    -> Resp(404, code)
    [] code = "not_found:stream"  -> Resp(404, code)
    [] code = "rate_limit:chat"   -> Resp(429, code)

\* An exception that leaves a handler: the framework answers 500.
Unhandled == Resp(500, "unhandled exception")

\* new Response('Internal Server Error', { status: 500 })
InternalErrorAsBadRequest == Resp(400, "bad_request:api")
InternalError == Resp(500, "Internal Server Error")

\* generateUUID never repeats: the client's id of the user message of request r
\* and the id streamText generates for the assistant message of request r.
UserMessageId(r) == 2 * r - 1
AssistantMessageId(r) == 2 * r

\* getMessagesByChatId({ id })
MessagesByChatId(c) == LET InChat(m) == m.chatId = c IN SelectSeq(messages, InChat)

\* getStreamIdsByChatId({ chatId })
StreamIdsByChatId(c) == LET InChat(s) == s.chat = c IN SelectSeq(streamIds, InChat)

Last(s) == s[Len(s)]

Finish(r, response) ==
  /\ pc' = [pc EXCEPT ![r] = "done"]
  /\ resp' = [resp EXCEPT ![r] = response]

\* --------------------------------------------------------------------- Init
Init ==
  /\ clock = 0
  /\ ticks = 0
  /\ redisOk \in BOOLEAN
  /\ streamCtx = "null"
  /\ chats = [c \in ChatIds |-> NoChat]
  /\ messages = <<>>
  /\ streamIds = <<>>
  /\ streams = [sid \in StreamIdSet |-> "absent"]
  /\ streamSrc = [sid \in StreamIdSet |-> "none"]
  /\ pc = [r \in Reqs |-> "idle"]
  /\ rq = [r \in Reqs |-> NoReq]
  /\ resp = [r \in Reqs |-> NoResp]
  /\ gen = [r \in Reqs |-> NoGen]
  /\ out = [r \in Reqs |-> <<>>]
  /\ client = [r \in Reqs |-> FALSE]
  /\ ld = [r \in Reqs |-> NoLoader]
  /\ toolDefinitions = [r \in Reqs |-> <<>>]
  /\ inv = [i \in Invs |-> NoInv]
  /\ conns = [c \in Invs |-> NoConn]

\* The environment's clock moves on.
Tick ==
  /\ ticks < MaxTicks
  /\ \E d \in Deltas : clock' = clock + d
  /\ ticks' = ticks + 1
  /\ UNCHANGED <<redisOk, streamCtx, chats, messages, streamIds, streams,
                 streamSrc, pc, rq, resp, gen, out, client, toolVars>>

\* ------------------------------------------------------ getStreamContext
\* The value getStreamContext() returns and leaves in globalStreamContext.
\* if (!globalStreamContext)
ContextMissingAlways == TRUE
ContextMissing == streamCtx = "null"

\* createResumableStreamContext(...): a new instance, "ctx" the first one and
\* "ctx2" one made while another is installed.
NewContext == IF streamCtx = "null" THEN "ctx" ELSE "ctx2"

GetStreamContextWithoutRedis == "ctx"
GetStreamContext ==
  IF ContextMissing /\ redisOk THEN NewContext ELSE streamCtx

\* ------------------------------------------------------ loadToolsViaMcpSdk
\* The zod type built for one property of an inputSchema: the kind by the
\* property's type, optional unless the name is in the required list.
\* inputSchema.required?.includes(propName) ?? false
IsRequiredWhenListAbsent(name, required) == ~required.present \/ name \in required.names
IsRequired(name, required) == required.present /\ name \in required.names

\* A zod type: its kind, the values of an enum, the element type of an array.
NoElement == [kind |-> "none", values |-> <<>>]
ZodType(kind, values, element) == [kind |-> kind, values |-> values, element |-> element]

\* itemType: z.any() unless items says otherwise.
ItemType(items) ==
  IF ~items.present THEN [kind |-> "any", values |-> <<>>]
  ELSE IF items.type = "string" /\ items.enum.present /\ Len(items.enum.values) > 0
    THEN [kind |-> "enum", values |-> items.enum.values]
  ELSE IF items.type = "string" THEN [kind |-> "string", values |-> <<>>]
  ELSE IF items.type \in {"number", "integer"} THEN [kind |-> "number", values |-> <<>>]
  ELSE IF items.type = "boolean" THEN [kind |-> "boolean", values |-> <<>>]
  ELSE [kind |-> "any", values |-> <<>>]

\* zodType before .optional(): the if/else chain over propSchema.type.
PropertyTypeIntegerAsString(schema) ==
  IF schema.type = "array" THEN ZodType("array", <<>>, ItemType(schema.items))
  ELSE IF schema.type = "string" /\ schema.enum.present /\ Len(schema.enum.values) > 0
    THEN ZodType("enum", schema.enum.values, NoElement)
  ELSE IF schema.type = "number" THEN ZodType("number", <<>>, NoElement)
  ELSE IF schema.type = "boolean" THEN ZodType("boolean", <<>>, NoElement)
  ELSE ZodType("string", <<>>, NoElement)
PropertyType(schema) ==
  IF schema.type = "array" THEN ZodType("array", <<>>, ItemType(schema.items))
  ELSE IF schema.type = "string" /\ schema.enum.present /\ Len(schema.enum.values) > 0
    THEN ZodType("enum", schema.enum.values, NoElement)
  ELSE IF schema.type \in {"number", "integer"} THEN ZodType("number", <<>>, NoElement)
  ELSE IF schema.type = "boolean" THEN ZodType("boolean", <<>>, NoElement)
  ELSE ZodType("string", <<>>, NoElement)

TranslateProperty(prop, required) ==
  [name |-> prop.name,
   kind |-> PropertyType(prop.schema).kind,
   values |-> PropertyType(prop.schema).values,
   element |-> PropertyType(prop.schema).element,
   optional |-> ~IsRequired(prop.name, required)]

\* Reading .type of a property schema that is null raises a TypeError.
TranslationThrows(tool) ==
  /\ tool.inputSchema.type = "object"
  /\ \E i \in 1..Len(tool.inputSchema.properties) :
       tool.inputSchema.properties[i].schema.isNull

\* The DynamicToolDefinition built for one listed operation.
ToolDefinition(tool, url) ==
  [operationId |-> tool.name,
   parameters |-> IF tool.inputSchema.type = "object"
                    THEN [i \in 1..Len(tool.inputSchema.properties) |->
                            TranslateProperty(tool.inputSchema.properties[i],
                                              tool.inputSchema.required)]
                    ELSE <<>>,
   mcpServerUrl |-> url,
   mcpToolName |-> tool.name]

\* definitions[operationId] = def: a repeated key keeps its place in the
\* object and takes the new value.
PutDefinition(sofar, def) ==
  IF \E i \in 1..Len(sofar) : sofar[i].operationId = def.operationId
    THEN [i \in 1..Len(sofar) |->
            IF sofar[i].operationId = def.operationId THEN def ELSE sofar[i]]
    ELSE Append(sofar, def)

\* The for loop over toolsResult.tools from operation i on: the definitions
\* filled in so far when an operation's translation throws, all of them
\* otherwise.
RECURSIVE TranslateFrom(_, _, _, _)
TranslateFrom(tools, i, sofar, url) ==
  IF i > Len(tools) THEN [definitions |-> sofar, failure |-> "none"]
  ELSE IF TranslationThrows(tools[i]) THEN [definitions |-> sofar, failure |-> "translate"]
  ELSE TranslateFrom(tools, i + 1, PutDefinition(sofar, ToolDefinition(tools[i], url)), url)

\* const definitions = {} at the head of every call.
InitialDefinitionsKept(r) == ld[r].definitions
InitialDefinitions(r) == <<>>

\* Where an exception raised at a place of the loader's body goes: the try
\* block's catch falls through to finally, the inner try around close()
\* swallows; "threw" would be an exception leaving the loader.
LoaderCatchSkipsFinally(at) == "returned"
LoaderCatch(at) == IF at = "close" THEN "returned" ELSE "finally"

\* Entry of loadToolsViaMcpSdk(url) up to its first await: new URL(url) and
\* new Client(); a rejected address is caught and, with no client to close,
\* the call returns at once.
LoaderEnter(r, url) ==
  LET entered == [ld[r] EXCEPT !.url = url, !.prev = ld[r].url, !.client = "null",
                               !.definitions = InitialDefinitions(r),
                               !.failure = "none", !.calls = @ + 1, !.result = <<>>,
                               !.closeError = FALSE, !.listed = <<>>]
  IN IF url = "bad"
       THEN IF LoaderCatch("url") = "finally"
              THEN [entered EXCEPT !.failure = "url", !.pc = "returned",
                                   !.result = entered.definitions]
              ELSE [entered EXCEPT !.failure = "url", !.pc = "threw"]
       ELSE [entered EXCEPT !.client = "created", !.pc = "connect"]

\* A direct call of the loader by caller r.
LoaderCall(r, urls) ==
  /\ ld[r].pc \in {"idle", "returned"}
  /\ ld[r].calls < MaxCalls
  /\ \E url \in urls : ld' = [ld EXCEPT ![r] = LoaderEnter(r, url)]
  /\ UNCHANGED <<envVars, dbVars, regVars, pc, rq, resp, gen, out, client, toolDefinitions, inv,
                 conns>>

\* await mcpClient.connect(transport)
LoaderConnect(r) ==
  /\ ld[r].pc = "connect"
  /\ \E ok \in BOOLEAN :
       IF ok /\ ld[r].url = "up"
         THEN ld' = [ld EXCEPT ![r].client = "connected", ![r].pc = "list"]
         ELSE ld' = [ld EXCEPT ![r].failure = "connect", ![r].pc = LoaderCatch("connect")]
  /\ UNCHANGED <<envVars, dbVars, regVars, pc, rq, resp, gen, out, client, toolDefinitions, inv,
                 conns>>

\* await mcpClient.listTools(), then the translation of every listed operation.
LoaderListTools(r, listings) ==
  /\ ld[r].pc = "list"
  /\ \/ ld' = [ld EXCEPT ![r].failure = "list", ![r].pc = LoaderCatch("list")]
     \/ \E tools \in listings :
          LET t == TranslateFrom(tools, 1, ld[r].definitions, ld[r].url) IN
          ld' = [ld EXCEPT ![r].definitions = t.definitions,
                           ![r].listed = tools,
                           ![r].failure = t.failure,
                           ![r].pc = IF t.failure = "none" THEN "finally"
                                     ELSE LoaderCatch("translate")]
  /\ UNCHANGED <<envVars, dbVars, regVars, pc, rq, resp, gen, out, client, toolDefinitions, inv,
                 conns>>

\* finally: await mcpClient.close() inside its own try/catch, return definitions.
\* close() aborts the transport before anything in it can fail.
LoaderClose(r) ==
  /\ ld[r].pc = "finally"
  /\ \E closed \in BOOLEAN :
       ld' = [ld EXCEPT ![r].client = "closed",
                        ![r].closeError = ~closed,
                        ![r].pc = IF closed THEN "returned" ELSE LoaderCatch("close"),
                        ![r].listed = <<>>,
                        ![r].result = ld[r].definitions]
  /\ UNCHANGED <<envVars, dbVars, regVars, pc, rq, resp, gen, out, client, toolDefinitions, inv,
                 conns>>

Loader(r, urls, listings) ==
  \/ LoaderCall(r, urls)
  \/ LoaderConnect(r)
  \/ LoaderListTools(r, listings)
  \/ LoaderClose(r)

\* ------------------------------------------- dynamicTools[opId].execute
\* jsonData.error.message || JSON.stringify(jsonData.error)
PayloadErrorText(e) == IF e.hasMessage THEN e.message ELSE e.serialized

\* if (jsonData.error): the field is there and its value is truthy.
PayloadErrorWithMessage(json) == json.error.hasMessage
PayloadErrorReported(json) == json.error.kind \notin {"absent", "falsy"}

\* jsonDataStringForAi.length > maxJsonLengthForPrompt
TooLargeFromLimit(length) == length >= MaxJsonLengthForPrompt
TooLarge(length) == length > MaxJsonLengthForPrompt

\* The narrative for a marker item whose payload parsed.
JsonNarrative(json) ==
  IF PayloadErrorReported(json)
    THEN <<"The tool reported an error in its response: ",
           PayloadErrorText(json.error), ".">>
  ELSE IF TooLarge(json.length)
    THEN <<"The tool call was successful and returned a large JSON data object with the following top-level keys: ">>
         \o json.keys
         \o <<". You may need to request specific parts of the data if the summary is insufficient.">>
  ELSE <<"The tool call was successful and returned the following JSON data. Analyze this data to display it: ",
         json.serialized>>

\* The narrative of the inner catch, for a payload JSON.parse rejects; the
\* texts of the model are shorter than the 200 characters it quotes.
ParseFailureAsRawText(item) == <<item.text>>
ParseFailureNarrative(item) ==
  <<"Received a response that appeared to be JSON, but it couldn't be parsed. Raw text started with: ",
    item.text, "... Error: ", item.json.parseError>>

\* One turn of the for loop over toolCallResult.content; item.type on a null
\* item raises a TypeError.
ProcessItem(item, st) ==
  IF item.type = "null" THEN [st EXCEPT !.threw = TRUE]
  ELSE IF item.type = "text" /\ item.text # ""
    THEN IF item.marker
           THEN IF item.json.parses
                  THEN [st EXCEPT !.resultForAi = JsonNarrative(item.json),
                                  !.meaningful = TRUE]
                ELSE IF ~st.meaningful
                  THEN [st EXCEPT !.resultForAi = ParseFailureNarrative(item),
                                  !.meaningful = TRUE]
                ELSE st
         ELSE IF ~st.meaningful
           THEN [st EXCEPT !.resultForAi = <<item.text>>, !.meaningful = TRUE]
         ELSE st
  ELSE IF ~st.meaningful
    THEN [st EXCEPT !.resultForAi = <<"Received non-text or empty content from the tool.">>,
                    !.meaningful = TRUE]
  ELSE st

\* if (meaningfulDataProcessed) break; a raised exception leaves the loop too.
LoopEndsOnlyByThrow(st) == st.threw
LoopEnds(st) == st.meaningful \/ st.threw

\* The loop from item i on; it breaks once something meaningful was processed.
RECURSIVE ScanContent(_, _, _)
ScanContent(content, i, st) ==
  IF i > Len(content) \/ LoopEnds(st) THEN st
  ELSE ScanContent(content, i + 1, ProcessItem(content[i], st))

\* let resultForAi = "Tool executed successfully."; meaningfulDataProcessed = false
ScanStart ==
  [resultForAi |-> <<"Tool executed successfully.">>, meaningful |-> FALSE,
   threw |-> FALSE]

\* if (toolCallResult.isError): the condition under which the top-level error
\* overrides the content's narrative.
TopLevelErrorReported(result) == result.isError

\* The narrative of the top-level error.
TopLevelErrorNarrative(error) ==
  IF error.kind = "object" /\ error.hasMessage
    THEN <<"Tool execution failed: ", error.message>>
  ELSE IF error.kind = "absent"
    THEN <<"Tool execution failed: ", "'Unknown error'">>
  ELSE <<"Tool execution failed: ", error.serialized>>

\* resultForAi as execute computes it from the remote call's result.
NormalizeWithoutFallback(result) ==
  IF TopLevelErrorReported(result) THEN TopLevelErrorNarrative(result.error)
  ELSE ScanContent(result.content, 1, ScanStart).resultForAi
Normalize(result) ==
  LET scanned == ScanContent(result.content, 1, ScanStart)
  IN IF TopLevelErrorReported(result) THEN TopLevelErrorNarrative(result.error)
     ELSE IF ~scanned.meaningful
       THEN <<"Tool executed but returned no discernible content or specific error.">>
     ELSE scanned.resultForAi

\* Whether the normalization raises instead of producing a narrative.
NormalizeThrows(result) == ScanContent(result.content, 1, ScanStart).threw

\* -------------------------------------------------------------------- POST
\* session.user.type
UserTypeOf(u) == IF u = "u2" THEN "guest" ELSE "regular"

\* entitlementsByUserType[userType].maxMessagesPerDay, with small stand-ins
\* for the numbers of lib/ai/entitlements.
EntitlementsByUserType == [guest |-> 1, regular |-> 2]

\* messageCount > entitlementsByUserType[userType].maxMessagesPerDay
OverLimitFromMaximum(messageCount, userType) ==
  messageCount >= EntitlementsByUserType[userType]
OverLimit(messageCount, userType) ==
  messageCount > EntitlementsByUserType[userType]

\* An exception raised by an await of POST: at which call, and whether it is
\* a ChatSDKError.
NoFault == [site |-> "none", kind |-> "none"]
FaultSites == {"auth", "count", "getChat", "title", "saveChat", "getMessages",
               "saveMessages", "createStreamId", "stream"}
AllFaults == [site : FaultSites, kind : {"sdk", "other"}]

\* The faults of one of the sites, and no fault.
FaultsAt(sites, faults) == {NoFault} \cup {f \in faults : f.site \in sites}

\* error.toResponse() of a ChatSDKError the persistence layer raised.
SdkErrorResponse == Resp(400, "bad_request:database")

\* catch (error) at the end of POST.
PostCatchSdkOnly(kind) == IF kind = "sdk" THEN SdkErrorResponse ELSE Unhandled
PostCatch(kind) == IF kind = "sdk" THEN SdkErrorResponse ELSE InternalError

\* The await of request r raised an exception of the kind.
Throw(r, kind) ==
  /\ Finish(r, PostCatch(kind))
  /\ rq' = [rq EXCEPT ![r].thrown = kind]

\* request.json() + postRequestBodySchema.parse, auth(), then
\* getMessageCountByUserId (answering count) against the entitlement of the
\* user's type: the checks that read no state of the chat.
PostStart(r, chatIds, users, visibilities, models, urls, counts, faults) ==
  /\ pc[r] = "idle"
  /\ \E valid \in BOOLEAN, count \in counts, c \in chatIds, u \in users \cup {"none"},
        v \in visibilities, m \in models, url \in urls,
        fault \in FaultsAt({"auth", "count"}, faults) :
       IF ~valid
         THEN /\ Finish(r, ErrorResponse("bad_request:api"))
              /\ rq' = [rq EXCEPT ![r] = [NoReq EXCEPT !.kind = "POST"]]
       ELSE IF fault.site = "auth" \/ (fault.site = "count" /\ u # "none")
         THEN /\ Finish(r, PostCatch(fault.kind))
              /\ rq' = [rq EXCEPT ![r] = [NoReq EXCEPT !.kind = "POST", !.chat = c,
                          !.user = IF fault.site = "auth" THEN "none" ELSE u,
                          !.visibility = v, !.model = m, !.url = url,
                          !.thrown = fault.kind]]
         ELSE /\ rq' = [rq EXCEPT ![r] = [NoReq EXCEPT !.kind = "POST", !.chat = c,
                          !.user = u, !.visibility = v, !.model = m, !.url = url,
                          !.count = IF u = "none" THEN 0 ELSE count]]
              /\ IF u = "none"
                   THEN Finish(r, ErrorResponse("unauthorized:chat"))
                   ELSE IF OverLimit(count, UserTypeOf(u))
                     THEN Finish(r, ErrorResponse("rate_limit:chat"))
                     ELSE /\ pc' = [pc EXCEPT ![r] = "getChat"]
                          /\ UNCHANGED resp
  /\ UNCHANGED <<envVars, dbVars, regVars, gen, out, client, toolVars>>

\* What POST does next once the chat is known to exist and to be the user's:
\* getMessagesByChatId and saveMessages of the user message.
AfterChatCheckSkipsSave(r) == IF rq[r].url = "none" THEN "createStream" ELSE "load"
AfterChatCheck(r) == "saveUser"

\* if (!chat): the chat is saved by the request that finds none.
SaveChatAlways(chat) == TRUE
SaveChatDue(chat) == chat = NoChat

\* getChatById and the ownership check.
PostGetChat(r, faults) ==
  /\ pc[r] = "getChat"
  /\ \E fault \in FaultsAt({"getChat"}, faults) :
       LET chat == chats[rq[r].chat] IN
         IF fault # NoFault THEN Throw(r, fault.kind)
         ELSE IF SaveChatDue(chat)
           THEN /\ pc' = [pc EXCEPT ![r] = "saveChat"]
                /\ UNCHANGED <<resp, rq>>
         ELSE IF chat.owner # rq[r].user
           THEN Finish(r, ErrorResponse("forbidden:chat")) /\ UNCHANGED rq
           ELSE /\ pc' = [pc EXCEPT ![r] = AfterChatCheck(r)]
                /\ UNCHANGED <<resp, rq>>
  /\ UNCHANGED <<envVars, dbVars, regVars, gen, out, client, toolVars>>

\* generateTitleFromUserMessage, then saveChat.  Either may throw; inserting a
\* chat id that is already there is refused by the store (primary key).
PostSaveChat(r, faults) ==
  /\ pc[r] = "saveChat"
  /\ \E fault \in FaultsAt({"title", "saveChat"}, faults) :
       IF fault # NoFault
         THEN Throw(r, fault.kind) /\ UNCHANGED chats
       ELSE IF chats[rq[r].chat] = NoChat
         THEN /\ chats' = [chats EXCEPT ![rq[r].chat] =
                             [owner |-> rq[r].user, visibility |-> rq[r].visibility]]
              /\ pc' = [pc EXCEPT ![r] = AfterChatCheck(r)]
              /\ UNCHANGED <<resp, rq>>
         ELSE Throw(r, "other") /\ UNCHANGED chats
  /\ UNCHANGED <<envVars, messages, streamIds, regVars, gen, out,
                 client, toolVars>>

\* The record POST hands to saveMessages for the user's message.
UserMessage(r) ==
  [id |-> UserMessageId(r), chatId |-> rq[r].chat, role |-> "user",
   createdAt |-> clock]

\* Where POST goes once the user message is stored.
AfterSaveUserMessage(r) == IF rq[r].url = "none" THEN "createStream" ELSE "load"

\* getMessagesByChatId, then saveMessages of the user message.
PostSaveUserMessage(r, faults) ==
  /\ pc[r] = "saveUser"
  /\ \E fault \in FaultsAt({"getMessages", "saveMessages"}, faults) :
       IF fault = NoFault
         THEN /\ messages' = Append(messages, UserMessage(r))
              /\ pc' = [pc EXCEPT ![r] = AfterSaveUserMessage(r)]
              /\ UNCHANGED <<resp, rq>>
         ELSE Throw(r, fault.kind) /\ UNCHANGED messages
  /\ UNCHANGED <<envVars, chats, streamIds, regVars, gen, out,
                 client, toolVars>>

\* if (mcpServerUrl): the call of loadToolsViaMcpSdk(mcpServerUrl)
PostLoadTools(r) ==
  /\ pc[r] = "load"
  /\ rq[r].url # "none"
  /\ ld' = [ld EXCEPT ![r] = LoaderEnter(r, rq[r].url)]
  /\ pc' = [pc EXCEPT ![r] = "loading"]
  /\ UNCHANGED <<envVars, dbVars, regVars, rq, resp, gen, out, client, toolDefinitions, inv,
                 conns>>

\* toolDefinitions = the loader's result, or {} when the call threw.
PostToolsLoaded(r) ==
  /\ pc[r] = "loading"
  /\ ld[r].pc \in {"returned", "threw"}
  /\ toolDefinitions' = [toolDefinitions EXCEPT ![r] = IF ld[r].pc = "returned" THEN ld[r].result ELSE <<>>]
  /\ pc' = [pc EXCEPT ![r] = "createStream"]
  /\ UNCHANGED <<envVars, dbVars, regVars, rq, resp, gen, out, client, ld, inv,
                 conns>>

\* streamId = generateUUID(); createStreamId({ streamId, chatId: id }); once it
\* has resolved, createDataStream runs execute at once: streamText starts the
\* generation and consumeStream keeps it running whoever reads.
PostCreateStreamId(r, faults) ==
  /\ pc[r] = "createStream"
  /\ \E fault \in FaultsAt({"createStreamId"}, faults) :
       IF fault = NoFault
         THEN /\ streamIds' = Append(streamIds, [chat |-> rq[r].chat, id |-> r])
              /\ gen' = [gen EXCEPT ![r] = [NoGen EXCEPT !.state = "streaming"]]
              /\ pc' = [pc EXCEPT ![r] = "respond"]
              /\ UNCHANGED <<resp, rq>>
         ELSE Throw(r, fault.kind) /\ UNCHANGED <<streamIds, gen>>
  /\ UNCHANGED <<envVars, chats, messages, regVars, out, client, toolVars>>

\* getStreamContext(), then streamContext.resumableStream(streamId, () => stream)
\* when there is a context, and the Response.
PostRespond(r, faults) ==
  /\ pc[r] = "respond"
  /\ streamCtx' = GetStreamContext
  /\ \E fault \in FaultsAt({"stream"}, faults) :
       IF fault # NoFault /\ GetStreamContext = "ctx"
         THEN /\ Throw(r, fault.kind)
              /\ UNCHANGED <<streams, streamSrc, client>>
         ELSE /\ IF GetStreamContext = "ctx" /\ streams[r] = "absent"
                   THEN /\ streams' = [streams EXCEPT ![r] = "live"]
                        /\ streamSrc' = [streamSrc EXCEPT ![r] = "gen"]
                   ELSE UNCHANGED <<streams, streamSrc>>
              /\ Finish(r, Resp(200, "stream"))
              /\ client' = [client EXCEPT ![r] = TRUE]
              /\ UNCHANGED rq
  /\ UNCHANGED <<envVars, dbVars, gen, out, toolVars>>

\* The client goes away while the response streams, the generation still
\* running.
Abandon(r) ==
  /\ client[r]
  /\ gen[r].state \in {"streaming", "tools", "finishing"}
  /\ client' = [client EXCEPT ![r] = FALSE]
  /\ UNCHANGED <<envVars, dbVars, regVars, pc, rq, resp, gen, out, toolVars>>

\* ------------------------------------------------------------ generation
\* Object.keys(dynamicTools): the operation ids of toolDefinitions, in order.
DynamicToolNames(r) == [i \in 1..Len(toolDefinitions[r]) |-> toolDefinitions[r][i].operationId]

\* experimental_activeTools
ActiveToolsWhateverModel(r) == StaticTools \o DynamicToolNames(r)
ActiveTools(r) ==
  IF rq[r].model = "chat-model-reasoning" THEN <<>>
  ELSE StaticTools \o DynamicToolNames(r)

\* Object.keys of the tools object: the static tools, then ...dynamicTools,
\* where a key that is already there keeps its place.
MergedToolNames(r) ==
  LET IsNew(name) == \A k \in 1..Len(StaticTools) : StaticTools[k] # name
  IN StaticTools \o SelectSeq(DynamicToolNames(r), IsNew)

\* tools: { getWeather, createDocument, updateDocument, requestSuggestions,
\* ...dynamicTools }: what a name is bound to in the merged object, the spread
\* coming last and replacing the entry of a key that is already there.
BoundToStaticFirst(r, name) ==
  IF \E k \in 1..Len(StaticTools) : StaticTools[k] = name THEN "static"
  ELSE IF \E k \in 1..Len(toolDefinitions[r]) : toolDefinitions[r][k].operationId = name
    THEN "dynamic"
  ELSE "none"
BoundTo(r, name) ==
  IF \E k \in 1..Len(toolDefinitions[r]) : toolDefinitions[r][k].operationId = name
    THEN "dynamic"
  ELSE IF \E k \in 1..Len(StaticTools) : StaticTools[k] = name THEN "static"
  ELSE "none"

\* The name the model backend asks for in a step that calls no dynamic tool:
\* getWeather while that name is bound to the static tool, else createDocument.
StaticRequests(r) ==
  IF BoundTo(r, "getWeather") = "static" THEN {"getWeather"} ELSE {"createDocument"}

\* The client object an activation of execute works with: its own new Client.
ConnectionOf(i) == i

\* execute(args) up to its first await: new URL(def.mcpServerUrl), new Client,
\* new transport.  The address is the one the loader has parsed already.
InvEnter(i, r, n, def) ==
  [NoInv EXCEPT !.pc = "connect", !.req = r, !.step = n, !.tool = def.operationId,
                !.url = def.mcpServerUrl, !.conn = ConnectionOf(i)]

\* The clients after the activations in calls have created theirs.
ConnsAfterEnter(calls) ==
  [c \in Invs |->
     IF \E i \in calls : ConnectionOf(i) = c
       THEN [state |-> "created",
             users |-> conns[c].users \cup {i \in calls : ConnectionOf(i) = c}]
       ELSE conns[c]]

\* The k idle activations of lowest index.
FirstFree(k) ==
  {i \in Invs : /\ inv[i].pc = "idle"
                /\ Cardinality({j \in Invs : j < i /\ inv[j].pc = "idle"}) < k}

\* What a step of the generation leaves behind: ended by a stream error, by a
\* natural stop, or by tool calls, after which the loop goes on while steps
\* remain; with dynamic tool calls in flight it first awaits them.
AfterStepOneMore(r, n, end, calls) ==
  CASE end = "error" -> [state |-> "failed", step |-> n, outcome |-> "error"]
    [] end = "stop"  -> [state |-> "finishing", step |-> n, outcome |-> "none"]
    [] OTHER -> [state |-> IF calls # {} THEN "tools"
                           ELSE IF n <= MaxSteps THEN "streaming" ELSE "finishing",
                 step |-> n, outcome |-> "none"]
AfterStep(r, n, end, calls) ==
  CASE end = "error" -> [state |-> "failed", step |-> n, outcome |-> "error"]
    [] end = "stop"  -> [state |-> "finishing", step |-> n, outcome |-> "none"]
    [] OTHER -> [state |-> IF calls # {} THEN "tools"
                           ELSE IF n < MaxSteps THEN "streaming" ELSE "finishing",
                 step |-> n, outcome |-> "none"]

\* result.consumeStream(): the generation's stream is read to its end whoever
\* else reads it, so the loop never waits for the client.
StreamConsumedByClient(r) == client[r]
StreamConsumed(r) == TRUE

\* One step of streamText: text deltas reach the data stream; the step ends with
\* a natural stop, with a stream error, or with calls of active tools.  Each
\* called name runs the execute it is bound to in the tools object: k names
\* bound to dynamic tools, whose execute is entered, or without them one name
\* bound to a static tool, which the step's event records in toolName.
GenStep(r, ends) ==
  /\ gen[r].state = "streaming"
  /\ StreamConsumed(r)
  /\ \E end \in ends, k \in 0..MaxInv :
       LET n == gen[r].step + 1
           calls == FirstFree(k)
       IN
       /\ end = "tool-calls" => Len(ActiveTools(r)) > 0
       /\ Cardinality(calls) = k
       /\ k > 0 => end = "tool-calls" /\ Len(ActiveTools(r)) > Len(StaticTools)
       /\ \E static \in IF end = "tool-calls" /\ k = 0 THEN StaticRequests(r)
                         ELSE {"none"} :
            out' = [out EXCEPT ![r] = Append(@, [NoEvent EXCEPT !.type = "text",
                                                                !.step = n,
                                                                !.toolName = static])]
       /\ gen' = [gen EXCEPT ![r] = AfterStep(r, n, end, calls)]
       /\ \E f \in [calls -> 1..Len(toolDefinitions[r])] :
            /\ \A i \in calls :
                 BoundTo(r, toolDefinitions[r][f[i]].operationId) = "dynamic"
            /\ inv' = [i \in Invs |->
                         IF i \in calls THEN InvEnter(i, r, n, toolDefinitions[r][f[i]])
                         ELSE inv[i]]
            /\ conns' = ConnsAfterEnter(calls)
  /\ UNCHANGED <<envVars, dbVars, regVars, pc, rq, resp, client, ld, toolDefinitions>>

\* streamText awaits the execute of every tool call of a step before the next
\* step.
ToolCallsNotAwaited(r) == TRUE
ToolCallsSettled(r) ==
  \A i \in Invs : inv[i].req = r => inv[i].pc \in {"returned", "threw"}

\* Every tool call of the step has returned its result to the model: the loop
\* goes on with the next step, or ends at the step cap.  A call that threw
\* would end the stream in an error.
GenToolsDone(r) ==
  /\ gen[r].state = "tools"
  /\ StreamConsumed(r)
  /\ ToolCallsSettled(r)
  /\ gen' = [gen EXCEPT ![r] =
       IF \E i \in Invs : inv[i].req = r /\ inv[i].pc = "threw"
         THEN [gen[r] EXCEPT !.state = "failed", !.outcome = "toolThrew"]
         ELSE [gen[r] EXCEPT !.state = IF gen[r].step < MaxSteps THEN "streaming"
                                       ELSE "finishing"]]
  /\ UNCHANGED <<envVars, dbVars, regVars, pc, rq, resp, out, client, toolVars>>

\* ---- dynamicTools[opId].execute after its entry
\* Where an exception raised at a place of execute goes: the try block's catch
\* writes the error event and returns, then finally runs; close() has its own
\* .catch.  "threw" would be an exception reaching the caller.
ExecuteCatchMissesConnect(at) ==
  CASE at = "close" -> "returned" [] at = "connect" -> "threw" [] OTHER -> "finally"
ExecuteCatch(at) == IF at = "close" THEN "returned" ELSE "finally"

\* execError.message of the exception raised at a place.
ExceptionMessage(at) ==
  CASE at = "connect" -> "fetch failed"
    [] at = "call" -> "MCP error -32603"
    [] OTHER -> "Cannot read properties of null (reading 'type')"

\* opId inside execute: `for (const opId in toolDefinitions)` binds it anew
\* for every definition, so each execute sees the id of its own tool.
OpIdOfLatestCall(i) ==
  inv[CHOOSE j \in Invs : /\ inv[j].pc # "idle"
                          /\ \A k \in Invs : inv[k].pc # "idle" => k <= j].tool
OpId(i) == inv[i].tool

\* The event the catch block writes, and no event for an exception that is
\* not caught.
ErrorEvent(i, at) ==
  [NoEvent EXCEPT !.type = "error", !.step = inv[i].step, !.toolName = OpId(i),
                  !.payload = <<"Tool ", OpId(i), " execution error: ",
                                ExceptionMessage(at)>>,
                  !.inv = i]

\* What the catch block writes to the data stream.
CatchWritesNothing(i, at) == <<>>
CatchEvents(i, at) == <<ErrorEvent(i, at)>>

\* An exception raised at a place of the try block of activation i, result
\* being what callTool had resolved to by then.
InvFail(i, at, result) ==
  IF ExecuteCatch(at) = "finally"
    THEN /\ out' = [out EXCEPT ![inv[i].req] = @ \o CatchEvents(i, at)]
         /\ inv' = [inv EXCEPT ![i].pc = "finally", ![i].failure = at,
                               ![i].result = result,
                               ![i].returned =
                                 [isError |-> TRUE,
                                  text |-> <<"Error executing tool ", OpId(i), ": ",
                                             ExceptionMessage(at)>>]]
    ELSE /\ inv' = [inv EXCEPT ![i].pc = "threw", ![i].failure = at,
                               ![i].result = result]
         /\ UNCHANGED out

\* await toolMcpClient.connect(toolTransport)
InvConnect(i) ==
  /\ inv[i].pc = "connect"
  /\ \E ok \in BOOLEAN :
       IF ok
         THEN /\ inv' = [inv EXCEPT ![i].pc = "call"]
              /\ conns' = [conns EXCEPT ![inv[i].conn].state = "connected"]
              /\ UNCHANGED out
         ELSE /\ InvFail(i, "connect", NoResult)
              /\ UNCHANGED conns
  /\ UNCHANGED <<envVars, dbVars, regVars, pc, rq, resp, gen, client, ld, toolDefinitions>>

\* The event written once the narrative is computed.
ToolResultEvent(i, narrative) ==
  [NoEvent EXCEPT !.type = "tool-result", !.step = inv[i].step,
                  !.toolName = OpId(i), !.payload = narrative, !.inv = i]

\* await toolMcpClient.callTool(...), the normalization of its result,
\* dataStream.writeData of the tool-result event and the return.
InvCallTool(i, results) ==
  /\ inv[i].pc = "call"
  /\ \/ InvFail(i, "call", NoResult)
     \/ \E result \in results :
          IF NormalizeThrows(result)
            THEN InvFail(i, "normalize", result)
            ELSE /\ out' = [out EXCEPT ![inv[i].req] =
                              Append(@, ToolResultEvent(i, Normalize(result)))]
                 /\ inv' = [inv EXCEPT ![i].pc = "finally", ![i].result = result,
                                       ![i].returned = [isError |-> FALSE,
                                                        text |-> Normalize(result)]]
  /\ UNCHANGED <<envVars, dbVars, regVars, pc, rq, resp, gen, client, ld, toolDefinitions,
                 conns>>

\* finally { if (toolMcpClient) await toolMcpClient.close().catch(...) }: runs
\* after the try block and after the catch block alike.
CloseOnlyAfterSuccess(i) == inv[i].failure = "none"
CloseDue(i) == TRUE

\* The finally block, then the return of the value to the model.  close()
\* aborts the transport before anything in it can fail, and its rejection is
\* swallowed by .catch.
InvClose(i) ==
  /\ inv[i].pc = "finally"
  /\ conns' = IF CloseDue(i) THEN [conns EXCEPT ![inv[i].conn].state = "closed"]
              ELSE conns
  /\ inv' = [inv EXCEPT ![i].pc = "returned"]
  /\ UNCHANGED <<envVars, dbVars, regVars, pc, rq, resp, gen, out, client, ld, toolDefinitions>>

\* A direct call of a dynamic tool's execute, its events going to the data
\* stream of request r.
ExecuteCall(i, r, definitions) ==
  /\ inv[i].pc = "idle"
  /\ \E def \in definitions :
       /\ inv' = [inv EXCEPT ![i] = InvEnter(i, r, 0, def)]
       /\ conns' = ConnsAfterEnter({i})
  /\ UNCHANGED <<envVars, dbVars, regVars, pc, rq, resp, gen, out, client, ld,
                 toolDefinitions>>

Execute(i, results) ==
  \/ InvConnect(i)
  \/ InvCallTool(i, results)
  \/ InvClose(i)

\* The record onFinish hands to saveMessages.
AssistantMessageWithUserId(r) ==
  [id |-> UserMessageId(r), chatId |-> rq[r].chat, role |-> "assistant",
   createdAt |-> clock]
AssistantMessage(r) ==
  [id |-> AssistantMessageId(r), chatId |-> rq[r].chat, role |-> "assistant",
   createdAt |-> clock]

\* The Message table after onFinish has stored the assistant message.
SaveAssistant(r) == Append(messages, AssistantMessage(r))

\* streamText calls onFinish once, when the last step of the generation ends.
OnFinishDueAgain(r) == gen[r].state \in {"finishing", "finished"}
OnFinishDue(r) == gen[r].state = "finishing"

\* The try/catch around the body of onFinish: 'No assistant message found!'
\* and a rejection of saveMessages are logged, and onFinish returns.
OnFinishEndThrows(outcome) == IF outcome = "saved" THEN "finished" ELSE "failed"
OnFinishEnd(outcome) == "finished"

\* onFinish: getTrailingMessageId over the assistant messages of the response,
\* then saveMessages; every failure is caught and logged.
GenFinish(r) ==
  /\ OnFinishDue(r)
  /\ StreamConsumed(r)
  /\ \E hasAssistant \in BOOLEAN, ok \in BOOLEAN :
       /\ messages' = IF hasAssistant /\ ok THEN SaveAssistant(r) ELSE messages
       /\ LET outcome == IF ~hasAssistant THEN "noAssistant"
                         ELSE IF ok THEN "saved" ELSE "saveFailed"
          IN gen' = [gen EXCEPT ![r].state = OnFinishEnd(outcome), ![r].outcome = outcome]
  /\ UNCHANGED <<envVars, chats, streamIds, regVars, pc, rq, resp, out,
                 client, toolVars>>

\* A registered resumable stream reaches its end: the generation's data stream
\* once the generation is over, the empty data stream at once.
ConcludeStream(sid) ==
  /\ streams[sid] = "live"
  /\ \/ streamSrc[sid] = "empty"
     \/ streamSrc[sid] = "gen" /\ gen[sid].state \in {"finished", "failed"}
  /\ streams' = [streams EXCEPT ![sid] = "done"]
  /\ UNCHANGED <<envVars, streamCtx, streamSrc, dbVars, pc, rq, resp,
                 gen, out, client, toolVars>>

\* --------------------------------------------------------------------- GET
\* date-fns differenceInSeconds: full seconds between two dates, truncated
\* towards zero.
DifferenceInSecondsRounded(later, earlier) ==
  IF later >= earlier THEN (2 * (later - earlier) + TicksPerSecond) \div (2 * TicksPerSecond)
                      ELSE -((2 * (earlier - later) + TicksPerSecond) \div (2 * TicksPerSecond))
DifferenceInSeconds(later, earlier) ==
  IF later >= earlier THEN (later - earlier) \div TicksPerSecond
                      ELSE -((earlier - later) \div TicksPerSecond)

\* getStreamContext(), resumeRequestedAt, the chatId parameter, auth().
GetStart(r, chatIds, users) ==
  /\ pc[r] = "idle"
  /\ streamCtx' = GetStreamContext
  /\ \E c \in chatIds \cup {"none"}, u \in users \cup {"none"} :
       /\ rq' = [rq EXCEPT ![r] = [NoReq EXCEPT !.kind = "GET", !.chat = c, !.user = u,
                                                !.at = clock]]
       /\ IF GetStreamContext = "null" THEN Finish(r, Resp(204, "none"))
          ELSE IF c = "none" THEN Finish(r, ErrorResponse("bad_request:api"))
          ELSE IF u = "none" THEN Finish(r, ErrorResponse("unauthorized:chat"))
          ELSE /\ pc' = [pc EXCEPT ![r] = "gChat"]
               /\ UNCHANGED resp
  /\ UNCHANGED <<envVars, dbVars, streams, streamSrc, gen, out, client, toolVars>>

\* chat.visibility === 'private' && chat.userId !== session.user.id
GetForbiddenWhateverVisibility(chat, user) == chat.owner # user
GetForbidden(chat, user) == chat.visibility = "private" /\ chat.owner # user

\* getChatById and the visibility check.
GetChat(r) ==
  /\ pc[r] = "gChat"
  /\ LET chat == chats[rq[r].chat] IN
       IF chat = NoChat THEN Finish(r, ErrorResponse("not_found:chat"))
       ELSE IF GetForbidden(chat, rq[r].user)
         THEN Finish(r, ErrorResponse("forbidden:chat"))
       ELSE /\ pc' = [pc EXCEPT ![r] = "gStreams"]
            /\ UNCHANGED resp
  /\ UNCHANGED <<envVars, dbVars, regVars, rq, gen, out, client, toolVars>>

\* streamIds.at(-1)
OldestStreamId(ids) == ids[1].id
RecentStreamId(ids) == ids[Len(ids)].id

\* getStreamIdsByChatId and streamIds.at(-1)
GetStreamIds(r) ==
  /\ pc[r] = "gStreams"
  /\ LET ids == StreamIdsByChatId(rq[r].chat) IN
       IF Len(ids) = 0
         THEN /\ Finish(r, ErrorResponse("not_found:stream"))
              /\ UNCHANGED rq
         ELSE /\ rq' = [rq EXCEPT ![r].recent = RecentStreamId(ids)]
              /\ pc' = [pc EXCEPT ![r] = "gResume"]
              /\ UNCHANGED resp
  /\ UNCHANGED <<envVars, dbVars, regVars, gen, out, client, toolVars>>

\* streamContext.resumableStream(recentStreamId, () => emptyDataStream): a new
\* entry over the empty stream when the id was never registered, the running
\* stream when it is live, null when it has concluded.
GetResume(r) ==
  /\ pc[r] = "gResume"
  /\ LET sid == rq[r].recent IN
       CASE streams[sid] = "absent" ->
              /\ streams' = [streams EXCEPT ![sid] = "live"]
              /\ streamSrc' = [streamSrc EXCEPT ![sid] = "empty"]
              /\ Finish(r, Resp(200, "stream"))
         [] streams[sid] = "live" ->
              /\ Finish(r, Resp(200, "stream"))
              /\ UNCHANGED <<streams, streamSrc>>
         [] OTHER ->
              /\ pc' = [pc EXCEPT ![r] = "gMessages"]
              /\ UNCHANGED <<resp, streams, streamSrc>>
  /\ UNCHANGED <<envVars, streamCtx, dbVars, rq, gen, out, client, toolVars>>

\* The events of the stream GET answers with once the resumable stream has
\* concluded: the restored stream's single event, or none.
RestoredEvents(msgs, requestedAt) ==
  IF Len(msgs) = 0 THEN <<>>
  ELSE IF Last(msgs).role # "assistant" THEN <<>>
  ELSE IF DifferenceInSeconds(requestedAt, Last(msgs).createdAt) > FreshnessSeconds
    THEN <<>>
  ELSE << [type |-> "append-message", message |-> Last(msgs)] >>

\* getMessagesByChatId and the answer built from the most recent message.
GetMessages(r) ==
  /\ pc[r] = "gMessages"
  /\ Finish(r, [status |-> 200, body |-> "restored",
                events |-> RestoredEvents(MessagesByChatId(rq[r].chat), rq[r].at)])
  /\ UNCHANGED <<envVars, dbVars, regVars, rq, gen, out, client, toolVars>>

\* ------------------------------------------------------------------ DELETE
\* searchParams.get('id') and auth().
DeleteStart(r, chatIds, users) ==
  /\ pc[r] = "idle"
  /\ \E c \in chatIds \cup {"none"}, u \in users \cup {"none"} :
       /\ rq' = [rq EXCEPT ![r] = [NoReq EXCEPT !.kind = "DELETE", !.chat = c, !.user = u]]
       /\ IF c = "none" THEN Finish(r, ErrorResponse("bad_request:api"))
          ELSE IF u = "none" THEN Finish(r, ErrorResponse("unauthorized:chat"))
          ELSE /\ pc' = [pc EXCEPT ![r] = "dChat"]
               /\ UNCHANGED resp
  /\ UNCHANGED <<envVars, dbVars, regVars, gen, out, client, toolVars>>

\* getChatById and chat.userId !== session.user.id: with no chat of that id,
\* reading userId of undefined raises a TypeError nothing catches.
DeleteGetChat(r) ==
  /\ pc[r] = "dChat"
  /\ LET chat == chats[rq[r].chat] IN
       IF chat = NoChat THEN Finish(r, Unhandled)
       ELSE IF chat.owner # rq[r].user THEN Finish(r, ErrorResponse("forbidden:chat"))
       ELSE /\ pc' = [pc EXCEPT ![r] = "dDelete"]
            /\ UNCHANGED resp
  /\ UNCHANGED <<envVars, dbVars, regVars, rq, gen, out, client, toolVars>>

\* deleteChatById: the chat goes with its messages and stream ids; with the
\* chat gone already, or the store failing, the rejection leaves the handler.
DeleteChat(r) ==
  /\ pc[r] = "dDelete"
  /\ LET c == rq[r].chat
         Kept(row) == row.chatId # c
         KeptId(row) == row.chat # c
     IN \E ok \in BOOLEAN :
          IF ok /\ chats[c] # NoChat
            THEN /\ chats' = [chats EXCEPT ![c] = NoChat]
                 /\ messages' = SelectSeq(messages, Kept)
                 /\ streamIds' = SelectSeq(streamIds, KeptId)
                 /\ Finish(r, Resp(200, "deleted"))
            ELSE /\ Finish(r, Unhandled)
                 /\ UNCHANGED dbVars
  /\ UNCHANGED <<envVars, regVars, rq, gen, out, client, toolVars>>

\* --------------------------------------------------------- specifications
Delete(r, chatIds, users) ==
  \/ DeleteStart(r, chatIds, users)
  \/ DeleteGetChat(r)
  \/ DeleteChat(r)

Post(r, chatIds, users, visibilities, models, urls, counts, faults, ends) ==
  \/ PostStart(r, chatIds, users, visibilities, models, urls, counts, faults)
  \/ PostGetChat(r, faults)
  \/ PostSaveChat(r, faults)
  \/ PostSaveUserMessage(r, faults)
  \/ PostCreateStreamId(r, faults)
  \/ PostRespond(r, faults)
  \/ Abandon(r)
  \/ GenStep(r, ends)
  \/ GenFinish(r)
  \/ ConcludeStream(r)

Get(r, chatIds, users) ==
  \/ GetStart(r, chatIds, users)
  \/ GetChat(r)
  \/ GetStreamIds(r)
  \/ GetResume(r)
  \/ GetMessages(r)

\* What a POST with a provider address adds: the capability loader and the
\* dynamic tool calls of its generation.
PostLoad(r, listings) ==
  \/ PostLoadTools(r)
  \/ LoaderConnect(r)
  \/ LoaderListTools(r, listings)
  \/ LoaderClose(r)
  \/ PostToolsLoaded(r)

PostTools(r, listings, results) ==
  \/ PostLoad(r, listings)
  \/ GenToolsDone(r)
  \/ \E i \in Invs : Execute(i, results)

\* The faults outside the specification of the handler's catch: an exception
\* that is no ChatSDKError from saveChat, saveMessages or createStreamId.
FewFaults == [site : {"saveChat", "saveMessages", "createStreamId"}, kind : {"other"}]

\* The answers of getMessageCountByUserId outside the specification of the
\* rate limit: no message yet, and more than any entitlement.
FewCounts == {0, MaxCount}

\* Requests are numbered in their order of arrival.
Arrived(r) == \A q \in 1..(r - 1) : pc[q] # "idle"

\* Any interleaving of POST and GET requests of users on the chats.
Next ==
  \E r \in Reqs :
    /\ Arrived(r)
    /\ \/ Post(r, ChatIds, {"u1"}, {"private"}, {"chat-model"}, {"none"}, FewCounts, FewFaults,
               {"stop", "error"})
       \/ Get(r, ChatIds, {"u1"})

Spec == Init /\ [][Next]_vars

\* One caller calling the capability loader, up to MaxCalls times, against any
\* address and any listing.
NextLoader == Loader(1, Urls, Listings)

SpecLoader == Init /\ [][NextLoader]_vars

\* The loader called against a provider that lists one operation with any
\* parameter schema.
SchemaListings == {<< [name |-> "lookup", inputSchema |-> schema] >> : schema \in ParameterSchemas}
NextSchema == Loader(1, {"up"}, SchemaListings)

SpecSchema == Init /\ [][NextSchema]_vars

\* The listings the single-request specification lets the provider return.
LookupTool == [name |-> "lookup", inputSchema |-> CitySchema]
FewListings == {<<>>, <<LookupTool>>}

\* A provider that advertises an operation named like the static getWeather.
GetWeatherTool == [name |-> "getWeather", inputSchema |-> CitySchema]
CollidingListings == {<<GetWeatherTool>>, <<LookupTool, GetWeatherTool>>}

\* One POST request in depth: capability loading, the generation loop up to
\* its step cap, dynamic tool calls in flight together, onFinish.
NextGen ==
  \/ Post(1, ChatIds, {"u1"}, {"private"}, Models, {"none", "down", "up"}, FewCounts, FewFaults,
          {"stop", "tool-calls", "error"})
  \/ PostTools(1, FewListings, FewResults)

\* The deployment has REDIS_URL set.
InitRedis == Init /\ redisOk

SpecGen == InitRedis /\ [][NextGen]_vars

\* One POST of the tool-using model against a provider that answers, every
\* await of the generation settling: the model backend ends each step, every
\* remote call resolves with a plain result or rejects, onFinish runs.
NextLoop ==
  \/ Post(1, ChatIds, {"u1"}, {"private"}, {"chat-model"}, {"up"}, FewCounts, FewFaults,
          {"stop", "tool-calls", "error"})
  \/ PostTools(1, {<<LookupTool>>}, {PlainResult})

GenProgress ==
  \/ GenStep(1, {"stop", "tool-calls", "error"})
  \/ GenToolsDone(1)
  \/ GenFinish(1)
  \/ \E i \in Invs : Execute(i, {PlainResult})

GenFairness == WF_vars(GenProgress)

SpecLoop == InitRedis /\ [][NextLoop]_vars /\ GenFairness

\* Dynamic tools called directly, one activation after the other or together,
\* the provider answering with any result.
NextExecute ==
  \/ ExecuteCall(1, 1, {ToolDefinition(LookupTool, "up")})
  \/ Execute(1, CallResults)

SpecExecute == Init /\ [][NextExecute]_vars

\* One POST naming a provider of any address and any listing, its generation
\* calling no tool.
NextTools ==
  \/ Post(1, ChatIds, {"u1"}, {"private"}, {"chat-model"}, Urls, {0}, FewFaults, {"stop"})
  \/ PostLoad(1, Listings)

SpecTools == InitRedis /\ [][NextTools]_vars

\* A POST of either user with either visibility, and a second request, POST
\* or GET (resume), of either user on the same chat.
NextGate ==
  \/ Post(1, ChatIds, Users, Visibilities, {"chat-model"}, {"none"}, {0}, FewFaults, {"stop"})
  \/ /\ Arrived(2)
     /\ \/ Post(2, ChatIds, Users, Visibilities, {"chat-model"}, {"none"}, {0}, FewFaults,
                {"stop"})
        \/ Get(2, ChatIds, Users)

SpecGate == InitRedis /\ [][NextGate]_vars

\* Two dynamic tools of different names called together, the provider
\* answering either with a result, with a rejection or not at all.
NextCalls ==
  \/ ExecuteCall(1, 1, {ToolDefinition(LookupTool, "up")})
  \/ ExecuteCall(2, 1, {ToolDefinition(GetWeatherTool, "up")})
  \/ \E i \in {1, 2} : Execute(i, FewResults)

SpecCalls == Init /\ [][NextCalls]_vars

\* Two POST requests of two users carrying the same chat id, in any
\* interleaving, the store and the stream registry working without fault.
NextRace ==
  \/ Post(1, ChatIds, {"u1"}, Visibilities, {"chat-model"}, {"none"}, {0}, {}, {"stop"})
  \/ /\ Arrived(2)
     /\ Post(2, ChatIds, {"u2"}, Visibilities, {"chat-model"}, {"none"}, {0}, {}, {"stop"})

SpecRace == InitRedis /\ [][NextRace]_vars

\* One POST of the tool-using model whose provider may advertise getWeather,
\* the model backend calling static and dynamic tools.
NextMerge ==
  \/ Post(1, {"c1"}, {"u1"}, {"private"}, {"chat-model"}, {"up"}, {0}, FewFaults,
          {"stop", "tool-calls"})
  \/ PostTools(1, CollidingListings, {PlainResult})

SpecMerge == InitRedis /\ [][NextMerge]_vars

\* One POST, every await of the handler raising any exception or none.
NextErrors ==
  Post(1, ChatIds, Users, {"private"}, {"chat-model"}, {"none"}, FewCounts, AllFaults,
       {"stop", "error"})

SpecErrors == Init /\ [][NextErrors]_vars

\* One POST of either user, the store answering any message count.
NextRate ==
  Post(1, ChatIds, Users, {"private"}, {"chat-model"}, {"none"}, 0..MaxCount, FewFaults,
       {"stop", "error"})

SpecRate == Init /\ [][NextRate]_vars

\* Two POST requests of either user on one chat; the second to arrive names
\* a provider.
NextAccess ==
  \/ Post(1, ChatIds, Users, {"private"}, {"chat-model"}, {"none"}, FewCounts, FewFaults, {"stop"})
  \/ /\ Arrived(2)
     /\ \/ Post(2, ChatIds, Users, {"private"}, {"chat-model"}, {"up"}, FewCounts, FewFaults, {"stop"})
        \/ PostLoad(2, {<<LookupTool>>})

SpecAccess == InitRedis /\ [][NextAccess]_vars

\* The chat is new, or it is the user's and holds the messages and the stream
\* id of an earlier generation that has concluded.
InitHandles ==
  \/ InitRedis
  \/ /\ clock = 0 /\ ticks = 0 /\ redisOk = TRUE /\ streamCtx = "ctx"
     /\ chats = [c \in ChatIds |-> [owner |-> "u1", visibility |-> "private"]]
     /\ messages = << [id |-> UserMessageId(EarlierStreamId), chatId |-> "c1",
                       role |-> "user", createdAt |-> 0],
                      [id |-> AssistantMessageId(EarlierStreamId), chatId |-> "c1",
                       role |-> "assistant", createdAt |-> 0] >>
     /\ streamIds = << [chat |-> "c1", id |-> EarlierStreamId] >>
     /\ streams = [sid \in StreamIdSet |-> IF sid = EarlierStreamId THEN "done" ELSE "absent"]
     /\ streamSrc = [sid \in StreamIdSet |-> IF sid = EarlierStreamId THEN "gen" ELSE "none"]
     /\ pc = [r \in Reqs |-> "idle"]
     /\ rq = [r \in Reqs |-> NoReq]
     /\ resp = [r \in Reqs |-> NoResp]
     /\ gen = [r \in Reqs |-> NoGen]
     /\ out = [r \in Reqs |-> <<>>]
     /\ client = [r \in Reqs |-> FALSE]
     /\ ld = [r \in Reqs |-> NoLoader]
     /\ toolDefinitions = [r \in Reqs |-> <<>>]
     /\ inv = [i \in Invs |-> NoInv]
     /\ conns = [c \in Invs |-> NoConn]

\* POST and GET (resume) requests of the chat's owner in any interleaving.
NextHandles ==
  \E r \in Reqs :
    /\ Arrived(r)
    /\ \/ Post(r, ChatIds, {"u1"}, {"private"}, {"chat-model"}, {"none"}, {0}, FewFaults, {"stop"})
       \/ Get(r, ChatIds, {"u1"})

SpecHandles == InitHandles /\ [][NextHandles]_vars

\* POST and DELETE requests of two users on one chat.
NextDelete ==
  \E r \in Reqs :
    /\ Arrived(r)
    /\ \/ Post(r, ChatIds, Users, {"private"}, {"chat-model"}, {"none"}, {0}, FewFaults, {"stop"})
       \/ Delete(r, ChatIds, Users)

SpecDelete == InitRedis /\ [][NextDelete]_vars

\* A POST and a GET (resume) on the same chat while the clock moves.
NextResume ==
  \/ Post(1, ChatIds, {"u1"}, {"private"}, {"chat-model"}, {"none"}, FewCounts, FewFaults,
          {"stop", "error"})
  \/ Get(2, ChatIds, {"u1"})
  \/ Tick

SpecResume == InitRedis /\ [][NextResume]_vars

\* The same requests in a deployment with or without REDIS_URL.
SpecContext == Init /\ [][NextResume]_vars

\* ------------------------------------------------------------------ claims
\* Positions in the Message table of the rows with a given id and role.
Rows(id, role) ==
  {i \in 1..Len(messages) : messages[i].id = id /\ messages[i].role = role}

\* C1: the assistant message of a generation is persisted at most once, and
\* exactly once when its onFinish saved it, whatever POST and GET (resume)
\* requests and client disconnects are interleaved with it.
C1_PersistedExactlyOnce ==
  \A r \in Reqs :
    /\ Cardinality(Rows(AssistantMessageId(r), "assistant")) <= 1
    /\ gen[r].outcome = "saved" =>
         Cardinality(Rows(AssistantMessageId(r), "assistant")) = 1

\* A generation was saved, its client had gone away, and a GET resumed its
\* stream handle and was answered.
C1_Witness ==
  \E r \in Reqs, g \in Reqs :
    /\ gen[r].outcome = "saved" /\ pc[r] = "done" /\ ~client[r]
    /\ rq[g].kind = "GET" /\ rq[g].recent = r /\ pc[g] = "done"
    /\ resp[g].status = 200

\* C2: a persisted user message has exactly one assistant message, stored
\* after it, once its generation has completed and saved, and none while or
\* after its request or generation fails (stream error, no assistant message
\* identified, failing save).
C2_UserHasOneAssistantOrNone ==
  \A r \in Reqs :
    Rows(UserMessageId(r), "user") # {} =>
      /\ Cardinality(Rows(UserMessageId(r), "user")) = 1
      /\ gen[r].outcome = "saved" =>
           \E j \in 1..Len(messages) :
             /\ Rows(AssistantMessageId(r), "assistant") = {j}
             /\ \A i \in Rows(UserMessageId(r), "user") : i < j
      /\ gen[r].outcome # "saved" => Rows(AssistantMessageId(r), "assistant") = {}

\* One user message has its assistant message, another one's generation ended
\* without a save.
C2_Witness ==
  \E r \in Reqs, q \in Reqs :
    /\ Rows(UserMessageId(r), "user") # {} /\ gen[r].outcome = "saved"
    /\ Rows(UserMessageId(q), "user") # {}
    /\ gen[q].outcome \in {"error", "noAssistant", "saveFailed"}

\* C3: within a POST the chat and the user message are stored before the
\* capability loader is called, before the stream handle is created, before the
\* generation starts and before any event reaches the data stream; the
\* assistant message is stored after that user message, under the same chat id.
C3_UserMessageFirst ==
  \A r \in Reqs :
    /\ ( \/ ld[r].calls > 0
         \/ \E k \in 1..Len(streamIds) : streamIds[k].id = r
         \/ gen[r].state # "none"
         \/ out[r] # <<>> )
       => /\ chats[rq[r].chat] # NoChat
          /\ \E i \in Rows(UserMessageId(r), "user") : messages[i].chatId = rq[r].chat
    /\ \A j \in Rows(AssistantMessageId(r), "assistant") :
         \E i \in Rows(UserMessageId(r), "user") :
           i < j /\ messages[i].chatId = messages[j].chatId

\* A request whose loader was called, whose stream handle exists and whose
\* assistant message is stored.
C3_Witness ==
  \E r \in Reqs :
    /\ ld[r].calls > 0 /\ out[r] # <<>>
    /\ \E k \in 1..Len(streamIds) : streamIds[k].id = r
    /\ Rows(AssistantMessageId(r), "assistant") # {}

\* The single event carrying the most recent of msgs when it is an assistant
\* message created less than `window` ticks before requestedAt, no event
\* otherwise.
EventsWithin(window, msgs, requestedAt) ==
  IF /\ Len(msgs) > 0
     /\ Last(msgs).role = "assistant"
     /\ requestedAt - Last(msgs).createdAt < window
    THEN << [type |-> "append-message", message |-> Last(msgs)] >>
    ELSE <<>>

\* The answers GET has built from the chat's most recent message.
Restored == {g \in Reqs : rq[g].kind = "GET" /\ pc[g] = "done" /\ resp[g].body = "restored"}

EventsOf(i) ==
  {k \in 1..Len(out[inv[i].req]) : out[inv[i].req][k].inv = i}

\* C5: a dynamic tool call never throws to its caller: a failure while
\* connecting, calling or normalizing writes an error event, returns a value
\* narrating the failure, and the generation is not ended by it.
C5_ExecuteNeverThrows ==
  /\ \A i \in Invs :
       /\ inv[i].pc # "threw"
       /\ (inv[i].pc \in {"finally", "returned"} /\ inv[i].failure # "none") =>
            /\ inv[i].returned.isError
            /\ Len(inv[i].returned.text) > 0
            /\ \E k \in EventsOf(i) : out[inv[i].req][k].type = "error"
  /\ \A r \in Reqs : gen[r].outcome # "toolThrew"

\* A call failed while connecting and the generation went on to a later step.
C5_Witness ==
  \E i \in Invs :
    /\ inv[i].pc = "returned" /\ inv[i].failure = "connect"
    /\ gen[inv[i].req].step > inv[i].step

\* C6: every dynamic tool call works with a client of its own, shared with no
\* other call, which is closed by the time the call returns, after a result,
\* a remote-reported error or a local exception alike; once every call has
\* returned no client is left open.
C6_OwnConnectionClosed ==
  /\ \A i \in Invs :
       inv[i].pc # "idle" =>
         /\ conns[inv[i].conn].users = {i}
         /\ inv[i].pc = "returned" => conns[inv[i].conn].state = "closed"
  /\ (\A i \in Invs : inv[i].pc \in {"idle", "returned"}) =>
       \A c \in Invs : conns[c].state \in {"none", "closed"}

\* Two calls of one step have returned, one with a remote-reported error and
\* one after a local exception.
C6_Witness ==
  \E i \in Invs, j \in Invs :
    /\ i # j /\ inv[i].step = inv[j].step
    /\ inv[i].pc = "returned" /\ inv[i].failure = "none" /\ inv[i].result.isError
    /\ inv[j].pc = "returned" /\ inv[j].failure # "none"

\* C7: a dynamic tool call writes exactly one event: a tool-result event when
\* the remote call returned and was normalized, an error event when a local
\* failure occurred; never none and never both.
C7_OneEventPerCall ==
  \A i \in Invs :
    /\ inv[i].pc \in {"connect", "call"} => EventsOf(i) = {}
    /\ inv[i].pc \in {"finally", "returned"} =>
         /\ Cardinality(EventsOf(i)) = 1
         /\ \A k \in EventsOf(i) :
              out[inv[i].req][k].type =
                IF inv[i].failure = "none" THEN "tool-result" ELSE "error"

\* One call has written its tool-result event and another its error event.
C7_Witness ==
  \E i \in Invs, j \in Invs :
    /\ inv[i].pc = "returned" /\ inv[i].failure = "none"
    /\ inv[j].pc = "returned" /\ inv[j].failure # "none"
    /\ Cardinality(EventsOf(i) \cup EventsOf(j)) = 2

\* Whether a narrative holds a text.
Contains(narrative, text) == \E k \in 1..Len(narrative) : narrative[k] = text

\* The narratives of success.
SuccessNarrative(narrative) ==
  \/ narrative = <<"Tool executed successfully.">>
  \/ Len(narrative) > 0 /\ narrative[1] \in
       {"The tool call was successful and returned the following JSON data. Analyze this data to display it: ",
        "The tool call was successful and returned a large JSON data object with the following top-level keys: "}

\* C8: for every remote call result carrying a top-level error object,
\* whatever its content items, the narrative returned to the model holds the
\* error's message (its serialized form when it has none) and is no success
\* narrative.
C8_TopLevelErrorNarrated ==
  \A i \in Invs :
    (/\ inv[i].pc \in {"finally", "returned"}
     /\ inv[i].failure = "none"
     /\ inv[i].result.error.kind = "object") =>
       /\ Contains(inv[i].returned.text,
                   IF inv[i].result.error.hasMessage
                     THEN inv[i].result.error.message
                     ELSE inv[i].result.error.serialized)
       /\ ~SuccessNarrative(inv[i].returned.text)

\* C9: no exception leaves the capability loader, and a call that fails at the
\* address, at the connection or at the listing returns an empty mapping, on
\* the first call and on every later one.
C9_LoaderNeverThrowsAndReturnsEmpty ==
  \A r \in Reqs :
    /\ ld[r].pc # "threw"
    /\ (ld[r].pc = "returned" /\ ld[r].failure \in {"url", "connect", "list"})
         => ld[r].result = <<>>

\* The second of two calls against the same unreachable address has returned.
C9_Witness ==
  \E r \in Reqs :
    /\ ld[r].pc = "returned" /\ ld[r].calls = 2
    /\ ld[r].url = "down" /\ ld[r].prev = "down"
    /\ ld[r].failure = "connect" /\ ld[r].result = <<>>

\* C11: the capability loader works with one client per call, closed by the
\* time the call returns after a listing (empty or not), a connection failure,
\* a listing failure or a translation failure; no client stays open once the
\* loader has returned, and an error raised by close() does not leave it.
C11_LoaderConnectionClosed ==
  \A r \in Reqs :
    /\ ld[r].pc # "threw"
    /\ ld[r].pc \in {"idle", "returned"} => ld[r].client \in {"null", "closed"}
    /\ (ld[r].pc = "returned" /\ ld[r].failure # "url") => ld[r].client = "closed"

\* A call whose translation failed has returned although its close() raised
\* an error.
C11_Witness ==
  \E r \in Reqs :
    /\ ld[r].pc = "returned" /\ ld[r].failure = "translate"
    /\ ld[r].closeError /\ ld[r].client = "closed"

\* The generation never takes a step beyond the cap, and every error event on
\* the data stream comes from a dynamic tool call that failed.
StepCapKept ==
  \A r \in Reqs :
    /\ gen[r].step <= MaxSteps
    /\ gen[r].state = "streaming" => gen[r].step < MaxSteps
    /\ (gen[r].step = MaxSteps /\ gen[r].state # "tools") =>
         gen[r].state \in {"finishing", "finished", "failed"}
    /\ \A k \in 1..Len(out[r]) :
         out[r][k].type = "error" =>
           out[r][k].inv \in Invs /\ inv[out[r][k].inv].failure # "none"

\* C12: the generation loop takes at most 5 steps and always reaches a
\* terminal state; at the cap without a natural stop it terminates through
\* onFinish, which persists the assistant message, and no error event is
\* written because of the cap.
C12_LoopBoundedAndTerminates ==
  /\ []StepCapKept
  /\ \A r \in Reqs :
       (gen[r].state = "streaming") ~> (gen[r].state \in {"finished", "failed"})

\* A generation whose fifth step ended with a dynamic tool call has stored its
\* assistant message, no error event on its data stream.
C12_Witness ==
  \E r \in Reqs :
    /\ gen[r].step = MaxSteps /\ gen[r].outcome = "saved"
    /\ \E k \in 1..Len(out[r]) :
         out[r][k].type = "tool-result" /\ out[r][k].step = MaxSteps
    /\ \A k \in 1..Len(out[r]) : out[r][k].type # "error"
    /\ Rows(AssistantMessageId(r), "assistant") # {}

\* C13: with the reasoning-only model the active tool list handed to the
\* generation is empty however many dynamic tools were loaded, and the
\* generation has no tool step, no activation of a dynamic tool and no
\* tool-result (or tool error) event.
C13_ReasoningHasNoTools ==
  \A r \in Reqs :
    rq[r].model = "chat-model-reasoning" =>
      /\ ActiveTools(r) = <<>>
      /\ gen[r].state # "tools"
      /\ \A i \in Invs : inv[i].req # r
      /\ \A k \in 1..Len(out[r]) : out[r][k].type \notin {"tool-result", "error"}

\* A generation of the reasoning-only model has finished with dynamic tools
\* loaded for its request.
C13_Witness ==
  \E r \in Reqs :
    /\ rq[r].model = "chat-model-reasoning"
    /\ Len(toolDefinitions[r]) > 0
    /\ gen[r].state = "finished" /\ gen[r].step > 0

\* The codes POST rejects a request with before it has done anything.
Rejections == {"bad_request:api", "unauthorized:chat", "rate_limit:chat", "forbidden:chat"}

Rejected(r) == rq[r].kind = "POST" /\ pc[r] = "done" /\ resp[r].body \in Rejections

\* A step of request r on the path of the checks: into the chat lookup, or
\* to a rejection.
CheckStep(r) ==
  /\ pc'[r] # pc[r]
  /\ \/ pc'[r] = "getChat"
     \/ pc'[r] = "done" /\ rq'[r].kind = "POST" /\ resp'[r].body \in Rejections

\* C15: a POST rejected as bad_request, unauthorized, rate_limit or forbidden
\* has no side effect: the rejection is reached through the checks alone,
\* whose steps leave the stored chats, messages and stream ids, the stream
\* registry, the generations and the provider connections as they were, and
\* the rejected request has no loader call, no generation, no stream id and
\* no stored message of its own.
C15_RejectedHasNoSideEffect ==
  /\ [][\A r \in Reqs :
          CheckStep(r) =>
            /\ pc[r] \in {"idle", "getChat"}
            /\ UNCHANGED <<dbVars, regVars, gen, out, toolVars>>]_vars
  /\ [](\A r \in Reqs :
          Rejected(r) =>
            /\ gen[r] = NoGen /\ out[r] = <<>>
            /\ ld[r] = NoLoader /\ toolDefinitions[r] = <<>>
            /\ \A i \in Invs : inv[i].req # r
            /\ \A k \in 1..Len(streamIds) : streamIds[k].id # r
            /\ \A k \in 1..Len(messages) :
                 messages[k].id \notin {UserMessageId(r), AssistantMessageId(r)})

\* A request naming a provider is refused a chat another user owns and has
\* stored messages in.
C15_Witness ==
  \E r \in Reqs :
    /\ Rejected(r) /\ resp[r].body = "forbidden:chat" /\ rq[r].url = "up"
    /\ chats[rq[r].chat].owner \notin {"none", rq[r].user}
    /\ Len(MessagesByChatId(rq[r].chat)) > 0

\* C16: a POST is rejected with rate_limit exactly when the user's message
\* count of the last 24 hours exceeds the maximum of the user's type (a count
\* equal to the maximum is accepted, one above it is rejected), and the
\* rejected request has stored nothing.
C16_RateLimitAboveMaximum ==
  \A r \in Reqs :
    (rq[r].kind = "POST" /\ rq[r].user # "none") =>
      LET maxMessagesPerDay == EntitlementsByUserType[UserTypeOf(rq[r].user)] IN
        /\ (rq[r].count > maxMessagesPerDay) <=>
             (pc[r] = "done" /\ resp[r].body = "rate_limit:chat")
        /\ resp[r].body = "rate_limit:chat" =>
             /\ resp[r].status = 429
             /\ messages = <<>> /\ streamIds = <<>>
             /\ \A c \in ChatIds : chats[c] = NoChat
             /\ gen[r] = NoGen

\* A request whose count equals the maximum of its user's type got past the
\* limit and stored its user message.
C16_Witness ==
  \E r \in Reqs :
    /\ rq[r].kind = "POST" /\ rq[r].user # "none"
    /\ rq[r].count = EntitlementsByUserType[UserTypeOf(rq[r].user)]
    /\ Rows(UserMessageId(r), "user") # {}

\* A request whose capability loader was called and failed.
LoadFailed(r) ==
  /\ rq[r].kind = "POST" /\ rq[r].url # "none"
  /\ ld[r].calls > 0 /\ ld[r].pc = "returned" /\ ld[r].failure # "none"
  /\ pc[r] \notin {"load", "loading"}

\* C17: when a provider address is supplied and capability loading fails,
\* the POST is not failed by it: the dynamic tool set is empty, the request
\* goes on to create its stream handle, and a generation that started has the
\* static tools only.
C17_LoadFailureDegrades ==
  \A r \in Reqs :
    LoadFailed(r) =>
      /\ toolDefinitions[r] = <<>>
      /\ pc[r] \in {"createStream", "respond", "done"}
      /\ gen[r].state # "none" =>
           /\ \E k \in 1..Len(streamIds) : streamIds[k].id = r
           /\ ActiveTools(r) = StaticTools
           /\ MergedToolNames(r) = StaticTools

NoDuplicates(names) ==
  \A i, j \in 1..Len(names) : names[i] = names[j] => i = j

\* C18: the tool names a generation presents to the model are unique: neither
\* the keys of the merged tool set nor the active-tool list holds a name twice,
\* whatever operations the provider advertised.
C18_ToolNamesUnique ==
  \A r \in Reqs :
    gen[r].state # "none" =>
      /\ NoDuplicates(MergedToolNames(r))
      /\ NoDuplicates(ActiveTools(r))

\* C19: GET resume takes the stream id created last for the chat, as the chat's
\* stream ids stand when it reads them, and attaches to the stream of that id
\* and to no other; when the chat has no stream id it answers
\* not_found:stream and touches no stream.
C19_ResumesMostRecentHandle ==
  [][\A g \in Reqs :
       LET ids == StreamIdsByChatId(rq[g].chat) IN
         /\ (pc[g] = "gStreams" /\ pc'[g] # "gStreams") =>
              IF Len(ids) = 0
                THEN /\ pc'[g] = "done" /\ resp'[g].body = "not_found:stream"
                     /\ UNCHANGED <<streams, streamSrc>>
                ELSE /\ pc'[g] = "gResume"
                     /\ rq'[g].recent = ids[Len(ids)].id
                     /\ \A k \in 1..(Len(ids) - 1) : rq'[g].recent # ids[k].id
         /\ (pc[g] = "gResume" /\ pc'[g] # "gResume") =>
              /\ \A sid \in StreamIdSet \ {rq[g].recent} :
                   streams'[sid] = streams[sid] /\ streamSrc'[sid] = streamSrc[sid]
              /\ resp'[g].body = "stream" => streams'[rq[g].recent] = "live"]_vars

\* A GET attached to the stream of a request's generation while the chat also
\* holds the stream id of the earlier generation.
C19_Witness ==
  \E g \in Reqs :
    LET ids == StreamIdsByChatId(rq[g].chat) IN
      /\ rq[g].kind = "GET" /\ pc[g] = "done" /\ resp[g].body = "stream"
      /\ Len(ids) >= 2 /\ ids[1].id = EarlierStreamId
      /\ rq[g].recent \in Reqs /\ streams[rq[g].recent] = "live"

\* The client of request r has gone away from a response that was streaming.
ClientGone(r) ==
  /\ rq[r].kind = "POST" /\ pc[r] = "done" /\ resp[r].body = "stream"
  /\ ~client[r]

\* The generation of r is over and none of its tool calls is in flight; when
\* its onFinish stored the assistant message, the row is there.
RanToCompletion(r) ==
  /\ gen[r].state \in {"finished", "failed"}
  /\ \A i \in Invs : inv[i].req = r => inv[i].pc \in {"returned", "threw"}
  /\ gen[r].state = "finished" => gen[r].outcome \in {"saved", "saveFailed", "noAssistant"}
  /\ gen[r].outcome = "saved" <=> Rows(AssistantMessageId(r), "assistant") # {}

\* C20: once the client of a streaming response has disconnected, the
\* generation loop and every tool call in flight still run to their end and
\* onFinish stores the assistant message as it does for a connected client
\* (unless the stream ends in an error or the store refuses the row): the
\* disconnect stops no step of the generation and not the persistence step.
C20_DisconnectDoesNotStopGeneration ==
  /\ \A r \in Reqs :
       (ClientGone(r) /\ gen[r].state \in {"streaming", "tools", "finishing"})
         ~> (ClientGone(r) /\ RanToCompletion(r))
  /\ [][\A r \in Reqs :
          (client[r] /\ ~client'[r]) => UNCHANGED <<gen, out, inv, conns, dbVars, regVars>>]_vars

\* The client left while a dynamic tool call was in flight; the call has
\* returned its result, the generation went on and its assistant message is
\* stored.
C20_Witness ==
  \E r \in Reqs :
    /\ ClientGone(r) /\ RanToCompletion(r)
    /\ gen[r].outcome = "saved" /\ gen[r].step > 1
    /\ \E i \in Invs : inv[i].req = r /\ inv[i].pc = "returned"
    /\ \E k \in 1..Len(out[r]) : out[r][k].type = "tool-result"

\* C21: the data stream of a generation holds its events in production
\* order: the event of a tool call is there before the call returns its
\* narrative to the model, so before every event of a following step, and no
\* event of a later step stands before an event of an earlier step.
C21_EventsInProductionOrder ==
  \A r \in Reqs :
    /\ \A j, k \in 1..Len(out[r]) : j < k => out[r][j].step <= out[r][k].step
    /\ \A i \in Invs :
         (inv[i].req = r /\ inv[i].pc \in {"finally", "returned"}) =>
           \E k \in 1..Len(out[r]) :
             /\ out[r][k].inv = i /\ out[r][k].step = inv[i].step
             /\ \A l \in 1..Len(out[r]) : out[r][l].step > inv[i].step => k < l

\* Two tool calls of one step have written their events, and the text of the
\* following step stands after both.
C21_Witness ==
  \E r \in Reqs : \E i, j \in Invs :
    /\ i # j /\ inv[i].req = r /\ inv[j].req = r /\ inv[i].step = inv[j].step
    /\ inv[i].pc = "returned" /\ inv[j].pc = "returned"
    /\ \E k, l, m \in 1..Len(out[r]) :
         /\ out[r][k].inv = i /\ out[r][l].inv = j /\ l < k
         /\ out[r][m].type = "text" /\ out[r][m].step = inv[i].step + 1 /\ k < m

\* The listed operations whose translation the loader of r holds: those of a
\* listing that was translated to its end, each name by its last operation.
Translated(r) ==
  {t \in 1..Len(ld[r].listed) :
     /\ ld[r].failure = "none"
     /\ ld[r].listed[t].inputSchema.type = "object"
     /\ \A u \in (t + 1)..Len(ld[r].listed) : ld[r].listed[u].name # ld[r].listed[t].name}

\* The definition the loader of r holds for listed operation t.
DefinitionOf(r, t) ==
  CHOOSE def \in {ld[r].definitions[k] : k \in 1..Len(ld[r].definitions)} :
    def.operationId = ld[r].listed[t].name

\* P(property schema, required list, translated parameter) for every
\* property of every translated operation.
EveryParameter(P(_, _, _)) ==
  \A r \in Reqs : \A t \in Translated(r) :
    LET schema == ld[r].listed[t].inputSchema
        parameters == DefinitionOf(r, t).parameters
    IN /\ Len(parameters) = Len(schema.properties)
       /\ \A i \in 1..Len(schema.properties) :
            /\ parameters[i].name = schema.properties[i].name
            /\ P(schema.properties[i], schema.required, parameters[i])

\* P for some property of some translated operation.
SomeParameter(P(_, _, _)) ==
  \E r \in Reqs : \E t \in Translated(r) :
    LET schema == ld[r].listed[t].inputSchema
        parameters == DefinitionOf(r, t).parameters
    IN \E i \in 1..Len(schema.properties) :
         P(schema.properties[i], schema.required, parameters[i])

\* C22: a property of type 'array' whose items declare a non-empty enum of
\* strings is translated to an array whose element kind is exactly that
\* enumerated set, whether or not items declares a type.
C22_ArrayOfEnum ==
  LET P(prop, required, parameter) ==
        (/\ prop.schema.type = "array" /\ prop.schema.items.present
         /\ prop.schema.items.enum.present /\ Len(prop.schema.items.enum.values) > 0) =>
          /\ parameter.kind = "array"
          /\ parameter.element = [kind |-> "enum", values |-> prop.schema.items.enum.values]
  IN EveryParameter(P)

\* C23: a parameter is required exactly when its name is in the schema's
\* required list; a property the list omits, and every property when the list
\* is absent, is optional.
C23_RequiredByList ==
  LET P(prop, required, parameter) ==
        /\ ~parameter.optional <=> (required.present /\ prop.name \in required.names)
        /\ ~required.present => parameter.optional
  IN EveryParameter(P)

\* Of two properties the list names one: that one is required, the other is
\* optional.
C23_Witness ==
  LET Listed(prop, required, parameter) ==
        required.present /\ prop.name \in required.names /\ ~parameter.optional
      Omitted(prop, required, parameter) ==
        required.present /\ prop.name \notin required.names /\ parameter.optional
  IN SomeParameter(Listed) /\ SomeParameter(Omitted)

\* C24: the kind of a property that is not an array: 'string' with a
\* non-empty enum gives the enumerated set; 'number' and 'integer' give
\* number; 'boolean' gives boolean; every other type, no type, and 'string'
\* with an empty or absent enum give string.
C24_KindByType ==
  LET P(prop, required, parameter) ==
        LET type == prop.schema.type
            enum == prop.schema.enum
        IN type # "array" =>
             /\ parameter.element = NoElement
             /\ IF type = "string" /\ enum.present /\ Len(enum.values) > 0
                  THEN parameter.kind = "enum" /\ parameter.values = enum.values
                ELSE /\ parameter.values = <<>>
                     /\ parameter.kind =
                          CASE type \in {"number", "integer"} -> "number"
                            [] type = "boolean" -> "boolean"
                            [] OTHER -> "string"
  IN EveryParameter(P)

\* An 'integer' property that also carries an enum became a number.
C24_Witness ==
  LET P(prop, required, parameter) ==
        /\ prop.schema.type = "integer" /\ prop.schema.enum = ColourEnum
        /\ parameter.kind = "number"
  IN SomeParameter(P)

\* C25: an authenticated DELETE of a chat id answers with the deleted record
\* when the requester owns the chat, with forbidden:chat when the chat is
\* another user's, and with a not_found error when no chat has the id; in the
\* two error cases nothing is deleted.
C25_DeleteByOwnerOnly ==
  [][\A r \in Reqs :
       (rq[r].kind = "DELETE" /\ pc[r] = "dChat" /\ pc'[r] # "dChat") =>
         LET chat == chats[rq[r].chat] IN
           IF chat = NoChat
             THEN /\ pc'[r] = "done" /\ resp'[r].status = 404
                  /\ UNCHANGED dbVars
           ELSE IF chat.owner # rq[r].user
             THEN /\ pc'[r] = "done" /\ resp'[r].body = "forbidden:chat"
                  /\ UNCHANGED dbVars
           ELSE pc'[r] = "dDelete" /\ UNCHANGED dbVars]_vars

\* C26: where no stream context can be created, GET answers 204 with no body
\* to every request, whatever its chat id and session, and has looked up no
\* chat, stream id or message.
C26_NoContextNoContent ==
  \A g \in Reqs :
    (rq[g].kind = "GET" /\ ~redisOk) =>
      /\ pc[g] = "done"
      /\ resp[g] = [status |-> 204, body |-> "none", events |-> <<>>]
      /\ rq[g].recent = 0
      /\ streamCtx = "null"

\* A GET without chat id was answered 204 while the chat had a stream id.
C26_Witness ==
  \E g \in Reqs :
    /\ rq[g].kind = "GET" /\ ~redisOk /\ rq[g].chat = "none"
    /\ resp[g].status = 204 /\ Len(streamIds) > 0

\* C27: an exception raised in POST after the body was validated (by
\* authentication, a persistence call, the title generation or the stream
\* set-up) is answered at the handler's catch: with the response of the
\* ChatSDKError it is, or else with status 500 and the fixed body 'Internal
\* Server Error'; no exception leaves the handler.
C27_ExceptionsAnswered ==
  \A r \in Reqs :
    rq[r].kind = "POST" =>
      /\ resp[r] # Unhandled
      /\ rq[r].thrown # "none" =>
           /\ pc[r] = "done"
           /\ resp[r] = IF rq[r].thrown = "sdk"
                          THEN [status |-> 400, body |-> "bad_request:database", events |-> <<>>]
                          ELSE [status |-> 500, body |-> "Internal Server Error", events |-> <<>>]

\* The stream set-up raised an exception that is no ChatSDKError after the
\* stream id was stored: the answer is the generic 500.
C27_Witness ==
  \E r \in Reqs :
    /\ rq[r].thrown = "other" /\ resp[r].status = 500
    /\ \E k \in 1..Len(streamIds) : streamIds[k].id = r

\* C28: when onFinish finds no assistant message in the response, no
\* assistant row is stored for the generation, the failure stays inside
\* onFinish (the generation ends as finished, no error event is written for
\* it), and the request keeps its streamed 200 answer.
C28_NoAssistantNothingSaved ==
  \A r \in Reqs :
    gen[r].outcome = "noAssistant" =>
      /\ gen[r].state = "finished"
      /\ \A k \in 1..Len(messages) :
           messages[k].role = "assistant" => messages[k].id # AssistantMessageId(r)
      /\ Rows(UserMessageId(r), "user") # {}
      /\ pc[r] = "done" => resp[r] = [status |-> 200, body |-> "stream", events |-> <<>>]
      /\ \A k \in 1..Len(out[r]) : out[r][k].type = "error" => out[r][k].inv \in Invs
      /\ streams[r] \in {"live", "done"} => streamSrc[r] = "gen"

\* After a step with a dynamic tool call onFinish found no assistant
\* message; the response was answered and its stream has concluded.
C28_Witness ==
  \E r \in Reqs :
    /\ gen[r].outcome = "noAssistant" /\ gen[r].state = "finished" /\ gen[r].step > 1
    /\ pc[r] = "done" /\ resp[r].status = 200
    /\ streams[r] = "done"

\* The calls that returned a narrative for a result whose first content item
\* is a text item with the marker and a payload that parsed.
MarkerCalls ==
  {i \in Invs :
     /\ inv[i].pc \in {"finally", "returned"} /\ inv[i].failure = "none"
     /\ Len(inv[i].result.content) > 0
     /\ inv[i].result.content[1].type = "text"
     /\ inv[i].result.content[1].marker
     /\ inv[i].result.content[1].json.parses}

\* The payload of the first content item of the result of call i.
PayloadOf(i) == inv[i].result.content[1].json

\* C29: when the first item of the content is a text item with the marker
\* whose payload parses to an object without error field, and the call
\* reported no top-level error, the narrative holds the serialized object in
\* full when its length is at most 3000 (3000 included) and only the names of
\* its top-level keys when the length is above 3000.
C29_LargeJsonSummarized ==
  \A i \in MarkerCalls :
    (PayloadOf(i).error.kind = "absent" /\ ~inv[i].result.isError) =>
      LET text == inv[i].returned.text IN
        /\ PayloadOf(i).length <= 3000 =>
             /\ Len(text) = 2 /\ text[2] = PayloadOf(i).serialized
             /\ text[1] = "The tool call was successful and returned the following JSON data. Analyze this data to display it: "
        /\ PayloadOf(i).length > 3000 =>
             /\ ~Contains(text, PayloadOf(i).serialized)
             /\ text = <<"The tool call was successful and returned a large JSON data object with the following top-level keys: ">>
                         \o PayloadOf(i).keys
                         \o <<". You may need to request specific parts of the data if the summary is insufficient.">>

\* A call returned the object of exactly 3000 characters in full.
C29_Witness ==
  \E i \in MarkerCalls :
    /\ inv[i].pc = "returned" /\ ~inv[i].result.isError
    /\ PayloadOf(i).error.kind = "absent"
    /\ PayloadOf(i).length = MaxJsonLengthForPrompt
    /\ inv[i].returned.text[2] = PayloadOf(i).serialized

\* C30 as stated: whenever the first item of the content is a text item with
\* the marker whose payload parses to an object that has an error field, and
\* the call reported no top-level error, the narrative narrates that error,
\* is no success narrative, and the call's event is a 'tool-result' event.
C30_AnyErrorFieldNarrated ==
  \A i \in MarkerCalls :
    (/\ PayloadOf(i).error.kind # "absent"
     /\ ~inv[i].result.isError /\ inv[i].result.error = NoError) =>
      /\ inv[i].returned.text =
           <<"The tool reported an error in its response: ",
             IF PayloadOf(i).error.hasMessage THEN PayloadOf(i).error.message
             ELSE PayloadOf(i).error.serialized, ".">>
      /\ ~SuccessNarrative(inv[i].returned.text)
      /\ \A k \in EventsOf(i) : out[inv[i].req][k].type = "tool-result"
      /\ EventsOf(i) # {}

\* C30: when the first item of the content is a text item with the marker
\* whose payload parses to an object with an error field of a truthy value
\* (not null, false, 0 or the empty string), and the call reported no
\* top-level error, the narrative narrates that error (its message, or its
\* serialized form when it has none), is no success narrative, and the call's
\* event is a 'tool-result' event.
C30_PayloadErrorNarrated ==
  \A i \in MarkerCalls :
    (/\ PayloadOf(i).error.kind \notin {"absent", "falsy"}
     /\ ~inv[i].result.isError /\ inv[i].result.error = NoError) =>
      /\ inv[i].returned.text =
           <<"The tool reported an error in its response: ",
             IF PayloadOf(i).error.hasMessage THEN PayloadOf(i).error.message
             ELSE PayloadOf(i).error.serialized, ".">>
      /\ ~SuccessNarrative(inv[i].returned.text)
      /\ \A k \in EventsOf(i) : out[inv[i].req][k].type = "tool-result"
      /\ EventsOf(i) # {}

\* A call whose payload carried an error without message returned the
\* serialized error, and its 'tool-result' event is in the stream.
C30_Witness ==
  \E i \in MarkerCalls :
    /\ inv[i].pc = "returned"
    /\ ~inv[i].result.isError /\ inv[i].result.error = NoError
    /\ PayloadOf(i).error.kind = "object" /\ ~PayloadOf(i).error.hasMessage
    /\ inv[i].returned.text[2] = PayloadOf(i).error.serialized
    /\ \E k \in EventsOf(i) : out[inv[i].req][k].type = "tool-result"

\* The calls that returned a narrative for a result with content and without
\* top-level error flag.
ContentCalls ==
  {i \in Invs :
     /\ inv[i].pc \in {"finally", "returned"} /\ inv[i].failure = "none"
     /\ Len(inv[i].result.content) > 0 /\ ~inv[i].result.isError}

\* The narrative of a result that holds the one item and nothing else.
NarrativeOfItemAlone(item) == Normalize(CallResult(<<item>>, FALSE, NoError))

\* C31: absent a top-level error the narrative is that of the first content
\* item alone, whatever items follow it; when the first item is non-textual
\* or has empty text it is the generic non-text notice, even if a later item
\* is textual.
C31_FirstItemDecides ==
  \A i \in ContentCalls :
    LET first == inv[i].result.content[1] IN
      /\ inv[i].returned.text = NarrativeOfItemAlone(first)
      /\ (first.type # "text" \/ first.text = "") =>
           inv[i].returned.text = <<"Received non-text or empty content from the tool.">>

\* A call whose result held an image and then a text item with a JSON payload
\* returned the generic notice.
C31_Witness ==
  \E i \in ContentCalls :
    /\ inv[i].pc = "returned"
    /\ Len(inv[i].result.content) = 2
    /\ inv[i].result.content[1].type = "image"
    /\ inv[i].result.content[2].type = "text" /\ inv[i].result.content[2].marker
    /\ inv[i].result.content[2].json.parses
    /\ inv[i].returned.text = <<"Received non-text or empty content from the tool.">>

\* C32: the initial narrative 'Tool executed successfully.' is never the value
\* a dynamic tool call returns and never the result of a tool-result event:
\* every path writes another narrative over it before the event is written.
C32_DefaultNeverReturned ==
  /\ \A i \in Invs :
       inv[i].pc \in {"finally", "returned"} =>
         inv[i].returned.text # ScanStart.resultForAi
  /\ \A r \in Reqs : \A k \in 1..Len(out[r]) :
       out[r][k].type = "tool-result" => out[r][k].payload # ScanStart.resultForAi

\* A call whose result had no content and no error flag, the path on which no
\* branch of the loop runs, returned the narrative of a result without
\* discernible content and wrote it to its event.
C32_Witness ==
  \E i \in Invs :
    /\ inv[i].pc = "returned" /\ inv[i].failure = "none"
    /\ inv[i].result.content = <<>> /\ ~inv[i].result.isError
    /\ inv[i].returned.text =
         <<"Tool executed but returned no discernible content or specific error.">>
    /\ \E k \in EventsOf(i) : out[inv[i].req][k].payload = inv[i].returned.text

\* The calls past their try block whose remote call resolved to a result with
\* a first content item that is a text item with the marker and a payload
\* JSON.parse rejects.
UnparsableCalls ==
  {i \in Invs :
     /\ inv[i].pc \in {"finally", "returned", "threw"}
     /\ Len(inv[i].result.content) > 0
     /\ inv[i].result.content[1].type = "text"
     /\ inv[i].result.content[1].marker
     /\ ~inv[i].result.content[1].json.parses}

\* C33: when the first item of the content is a text item with the marker
\* whose payload cannot be parsed, the call does not fail: its narrative is
\* neither the item's raw text nor a success narrative, and absent a
\* top-level error it is the parse-failure narrative with the parser's
\* message; its event is a 'tool-result' event, not an 'error' event, and
\* its connection is closed when it has returned.
C33_UnparsablePayloadNarrated ==
  \A i \in UnparsableCalls :
    LET first == inv[i].result.content[1] IN
      /\ inv[i].failure = "none" /\ inv[i].pc # "threw"
      /\ ~inv[i].returned.isError
      /\ inv[i].returned.text # <<first.text>>
      /\ ~SuccessNarrative(inv[i].returned.text)
      /\ ~inv[i].result.isError =>
           /\ inv[i].returned.text[1] =
                "Received a response that appeared to be JSON, but it couldn't be parsed. Raw text started with: "
           /\ Contains(inv[i].returned.text, first.json.parseError)
      /\ EventsOf(i) # {}
      /\ \A k \in EventsOf(i) : out[inv[i].req][k].type = "tool-result"
      /\ inv[i].pc = "returned" => conns[inv[i].conn].state = "closed"

\* A call whose payload did not parse has returned the parse-failure
\* narrative, its 'tool-result' event written and its connection closed.
C33_Witness ==
  \E i \in UnparsableCalls :
    /\ inv[i].pc = "returned" /\ ~inv[i].result.isError
    /\ Contains(inv[i].returned.text, "Unexpected token o in JSON")
    /\ \E k \in EventsOf(i) : out[inv[i].req][k].type = "tool-result"
    /\ conns[inv[i].conn].state = "closed"

\* C34: when a dynamic operation is named like a static tool, the name is
\* bound to the dynamic adapter in the merged tool set, and a call of that
\* name runs the adapter against the remote provider: no step records a call
\* of the static tool of that name.
C34_DynamicShadowsStatic ==
  \A r \in Reqs : \A d \in 1..Len(toolDefinitions[r]) :
    LET name == toolDefinitions[r][d].operationId IN
      (\E s \in 1..Len(StaticTools) : StaticTools[s] = name) =>
        /\ BoundTo(r, name) = "dynamic"
        /\ \A k \in 1..Len(out[r]) :
             out[r][k].type = "text" => out[r][k].toolName # name
        /\ \A i \in Invs :
             (inv[i].req = r /\ inv[i].tool = name /\ inv[i].pc # "idle") =>
               inv[i].url = toolDefinitions[r][d].mcpServerUrl

\* The provider advertised getWeather, the model called that name, and the
\* call has returned from the remote provider.
C34_Witness ==
  \E i \in Invs :
    /\ inv[i].pc = "returned" /\ inv[i].tool = "getWeather"
    /\ inv[i].failure = "none" /\ inv[i].url = "up"
    /\ \E d \in 1..Len(toolDefinitions[inv[i].req]) :
         toolDefinitions[inv[i].req][d].operationId = "getWeather"

\* C35: once getStreamContext has created the process-wide context, every
\* later call of any request, in any interleaving of the requests, returns
\* that instance: no step replaces an installed context by another one or by
\* none.
C35_ContextCreatedOnce ==
  [][streamCtx # "null" => streamCtx' = streamCtx]_vars

\* The POST has answered with its stream and the GET has passed its call of
\* getStreamContext, both on the first instance.
C35_Witness ==
  /\ streamCtx = "ctx"
  /\ rq[1].kind = "POST" /\ resp[1].status = 200
  /\ rq[2].kind = "GET" /\ pc[2] # "idle" /\ resp[2].status # 204

\* The request r has got the answer forbidden.
Forbidden(r) == pc[r] = "done" /\ resp[r] = [status |-> 403, body |-> "forbidden:chat", events |-> <<>>]

\* C36: a POST that looks the chat up is answered forbidden exactly when the
\* chat exists and its owner is not the requester, whatever its visibility; a
\* GET (resume) that looks the chat up is answered forbidden exactly when the
\* chat exists, is private and its owner is not the requester.  The forbidden
\* GET is answered by the step of the check, which touches neither the
\* stored rows nor the stream registry, and it holds no stream id and no
\* event.
C36_OwnershipOrVisibility ==
  /\ [][\A r \in Reqs :
          LET chat == chats[rq[r].chat]
              forbidden == pc'[r] = "done" /\ resp'[r].body = "forbidden:chat"
          IN
          /\ (rq[r].kind = "POST" /\ pc[r] = "getChat" /\ pc'[r] # "getChat") =>
               (forbidden <=> (chat # NoChat /\ chat.owner # rq[r].user))
          /\ (rq[r].kind = "GET" /\ pc[r] = "gChat" /\ pc'[r] # "gChat") =>
               (forbidden <=> (/\ chat # NoChat /\ chat.visibility = "private"
                               /\ chat.owner # rq[r].user))
          /\ (rq[r].kind = "GET" /\ pc[r] # "done" /\ forbidden) =>
               /\ pc[r] = "gChat"
               /\ UNCHANGED <<dbVars, regVars, gen, out, toolVars>>]_vars
  /\ [](\A r \in Reqs :
          (Forbidden(r) /\ rq[r].kind = "GET") =>
            rq[r].recent = 0 /\ resp[r].events = <<>>)

\* A GET of a user who does not own the chat was refused the private chat
\* while stream ids and messages of it are stored.
C36_Witness ==
  \E r \in Reqs :
    /\ Forbidden(r) /\ rq[r].kind = "GET"
    /\ chats[rq[r].chat].visibility = "private"
    /\ chats[rq[r].chat].owner \notin {"none", rq[r].user}
    /\ Len(StreamIdsByChatId(rq[r].chat)) > 0
    /\ Len(MessagesByChatId(rq[r].chat)) > 0

\* C37: a chat record comes into being only by the saveChat of a POST that
\* found no chat of that id, with the requester as owner and the requested
\* visibility; a POST that finds the chat makes no saveChat call, and no step
\* of any POST changes the owner or the visibility of a chat that exists.
C37_ChatCreatedOnceThenKept ==
  /\ [][\A c \in ChatIds :
          chats'[c] # chats[c] =>
            /\ chats[c] = NoChat
            /\ \E r \in Reqs :
                 /\ rq[r].kind = "POST" /\ rq[r].chat = c /\ pc[r] = "saveChat"
                 /\ chats'[c] = [owner |-> rq[r].user,
                                 visibility |-> rq[r].visibility]]_vars
  /\ [][\A r \in Reqs :
          (/\ rq[r].kind = "POST" /\ pc[r] = "getChat"
           /\ chats[rq[r].chat] # NoChat) => pc'[r] # "saveChat"]_vars

\* The owner's second POST asked for the other visibility, found the chat and
\* was answered with its stream; the chat has kept its visibility.
C37_Witness ==
  \E r \in Reqs, q \in Reqs :
    /\ r # q /\ rq[r].kind = "POST" /\ rq[q].kind = "POST"
    /\ rq[r].chat = rq[q].chat /\ rq[r].user = rq[q].user
    /\ resp[r].status = 200 /\ resp[q].status = 200
    /\ rq[r].visibility = "private" /\ rq[q].visibility = "public"
    /\ chats[rq[r].chat] = [owner |-> rq[r].user, visibility |-> "private"]

\* The POST r has called saveChat.  Where no two requests are of the same
\* user, a request that found the chat was refused it, so every request that
\* is past the chat check and was not rejected went through its saveChat.
SaveChatCalled(r) ==
  /\ rq[r].kind = "POST" /\ rq[r].user # "none"
  /\ pc[r] \notin {"idle", "getChat", "saveChat"}
  /\ resp[r].body \notin Rejections

\* C38: of two concurrent POST requests carrying the same chat id that does
\* not exist yet, at most one calls saveChat for it.
C38_ChatSavedByOne ==
  \A r \in Reqs, q \in Reqs :
    (r # q /\ rq[r].chat = rq[q].chat) => ~(SaveChatCalled(r) /\ SaveChatCalled(q))

\* The tool-result and error events of the data stream of request r.
ToolEvents(r) == {k \in 1..Len(out[r]) : out[r][k].type \in {"tool-result", "error"}}

\* C39 as stated: every tool-result or error event carries the name of the
\* tool whose activation wrote it and the very narrative that activation
\* returned to the model.
C39_EventEqualsReturned ==
  \A r \in Reqs : \A k \in ToolEvents(r) :
    LET i == out[r][k].inv IN
      /\ i \in Invs /\ inv[i].req = r
      /\ out[r][k].toolName = inv[i].tool
      /\ out[r][k].payload = inv[i].returned.text

\* C39: with several calls in flight in any interleaving, every tool-result
\* or error event carries the name of the tool whose activation wrote it; a
\* tool-result event carries the very narrative that activation returned to
\* the model, and an error event carries, in words of its own, the message of
\* the exception that the returned error value of that activation carries.
C39_EventsAttributed ==
  \A r \in Reqs : \A k \in ToolEvents(r) :
    LET i == out[r][k].inv IN
      /\ i \in Invs /\ inv[i].req = r
      /\ out[r][k].toolName = inv[i].tool
      /\ out[r][k].type = "tool-result" =>
           /\ inv[i].failure = "none"
           /\ out[r][k].payload = inv[i].returned.text
      /\ out[r][k].type = "error" =>
           /\ inv[i].failure # "none" /\ inv[i].returned.isError
           /\ Contains(out[r][k].payload, inv[i].tool)
           /\ Contains(inv[i].returned.text, inv[i].tool)
           /\ \E m \in {"fetch failed", "MCP error -32603",
                          "Cannot read properties of null (reading 'type')"} :
                /\ Contains(out[r][k].payload, m)
                /\ Contains(inv[i].returned.text, m)

\* The call of getWeather wrote its tool-result event before the call of
\* lookup, entered first, wrote its error event.
C39_Witness ==
  \E k \in ToolEvents(1), l \in ToolEvents(1) :
    /\ k < l
    /\ out[1][k].type = "tool-result" /\ out[1][k].toolName = "getWeather"
    /\ out[1][k].inv = 2 /\ out[1][k].payload = inv[2].returned.text
    /\ out[1][l].type = "error" /\ out[1][l].toolName = "lookup"
    /\ out[1][l].inv = 1

\* C14: a POST of the reasoning-only model that supplies a provider address
\* does not call the capability loader and creates no client for the provider.
C14_ReasoningSkipsLoading ==
  \A r \in Reqs :
    (rq[r].kind = "POST" /\ rq[r].model = "chat-model-reasoning") =>
      ld[r].calls = 0 /\ ld[r].client = "null"

\* C10: a translation failure after earlier operations were translated makes
\* the loader return an empty mapping.
C10_EmptyOnTranslationFailure ==
  \A r \in Reqs :
    (ld[r].pc = "returned" /\ ld[r].failure = "translate") => ld[r].result = <<>>

====
